---- MODULE Spec2Model ----
(***************************************************************************)
(* A model of the hozo job runner (src/src/hozo/core/job.py) and of the    *)
(* two readiness probers it calls (core/ssh.py, core/disk.py).             *)
(*                                                                         *)
(* One run_job execution is a sequential process; pc is its position.     *)
(* Every external collaborator (wake packet, TCP connect, remote command,  *)
(* syncoid) answers nondeterministically with one of the outcomes the real *)
(* collaborator can produce, exceptions included.                          *)
(***************************************************************************)
EXTENDS Integers, Sequences, FiniteSets, TLC

VARIABLES
    job,            \* the BackupJob being run (immutable during the run)
    pc,             \* position of run_job
    calls,          \* ghost: the external steps invoked so far, in order
    t,              \* wait_for_*: time.monotonic() since the wait was entered
    deadline,       \* wait_for_*: local deadline (relative to the entry time)
    first_poll,     \* wait_for_remote_drive_active: local first_poll
    ssh_up,         \* run_job local: result of wait_for_ssh
    drive_ready,    \* run_job local: result of wait_for_remote_drive_active
    wakeReads,      \* ghost: number of remote_spin_up_drive calls
    attempt,        \* run_job local: loop variable of the retry loop
    last_error,     \* run_job local
    snapshots,      \* run_job local
    path,           \* which call site of _maybe_shutdown is executing
    syncoidCalls,   \* ghost: number of run_syncoid calls
    firstOk,        \* ghost: index of the first run_syncoid call that returned (0: none)
    retrySleeps,    \* ghost: number of time.sleep(job.retry_delay) calls
    listing,        \* ghost: outcome kind of list_remote_snapshots ("none" before)
    shutdownOutcome,\* ghost: outcome kind of the shutdown command ("none" before)
    exc,            \* the exception run_job propagated ("none" if it did not)
    result,         \* the JobResult returned (meaningful when pc = "done")
    w,              \* the wait_for_* call in progress: its arguments and its history
    sched,          \* the HozoScheduler object
    runs,           \* the run_job executions in flight and those that have ended
    handlers,       \* the handlers attached to the shared "hozo" logger
    clock,          \* the trigger-evaluation loop: wall-clock time, next run time, last pass
    parseCall       \* a parse_schedule call: its argument and its outcome

vars == <<job, pc, calls, t, deadline, first_poll, ssh_up, drive_ready, wakeReads,
          attempt, last_error, snapshots, path, syncoidCalls, firstOk, retrySleeps,
          listing, shutdownOutcome, exc, result, w, sched, runs, handlers, clock,
          parseCall>>

----------------------------------------------------------------------------
(* Bounds of the model *)

MaxRetries == 3
MaxTimeout == 6
MaxConnTime == 1
MaxCmdTime == 1

(* Program constants *)

DefaultSpinupTimeout == 90
PollInterval == 5
ConnectTimeout == 5
DefaultAttempts == 1
DefaultPort == 22

----------------------------------------------------------------------------
(* Python values *)

None == "<None>"
Unbound == -1

\* Python truthiness of an Optional[str]: None and "" are falsy.
Truthy(s) == s # None /\ s # ""

Max(a, b) == IF a > b THEN a ELSE b
Min(a, b) == IF a < b THEN a ELSE b

----------------------------------------------------------------------------
(* BackupJob *)

Hosts == {"backup.local"}
Devices == {None, "", "/dev/sdb"}
Ports == {DefaultPort, 2222}

BackupJob ==
    [name : {"test"},
     target_host : Hosts,
     shutdown_after : BOOLEAN,
     timeout : 0..MaxTimeout,
     retries : 0..MaxRetries,
     backup_device : Devices,
     disk_spinup_timeout : {0, MaxTimeout},
     ssh_port : Ports,
     schedule : {<<>>}]

(* JobResult: the dataclass constructor with its defaults *)

JobResult(success, error, snaps, attempts) ==
    [job_name |-> job.name, success |-> success, finished |-> TRUE,
     started_at |-> 0, finished_at |-> 0,
     error |-> error, snapshots_after |-> snaps, attempts |-> attempts]

NoResult ==
    [job_name |-> None, success |-> FALSE, finished |-> FALSE,
     started_at |-> 0, finished_at |-> 0,
     error |-> None, snapshots_after |-> <<>>, attempts |-> 0]

SshError(j) ==
    "SSH did not become available on " \o j.target_host \o " within "
        \o ToString(j.timeout) \o "s"

DriveError(j) ==
    "Drive " \o j.backup_device \o " on " \o j.target_host
        \o " did not spin up within " \o ToString(j.disk_spinup_timeout) \o "s"

\* The frame of a wait_for_* call: its arguments and, as ghosts, what it has
\* done so far (polls made, polls that found the target not ready, when the
\* last poll began and ended, the local remaining before the last sleep and
\* that sleep, the time at which it returned,
\* how the last state query ended, the last drive state reported and the last
\* readiness answer).
Frame(timeout, poll_interval, spin_up) ==
    [timeout |-> timeout, poll_interval |-> poll_interval, spin_up |-> spin_up,
     polls |-> 0, notReady |-> 0, pollStart |-> 0, polledAt |-> 0,
     remaining |-> 0, slept |-> 0, sleeps |-> 0, elapsed |-> 0,
     query |-> "none", state |-> "none", ready |-> FALSE]

NoWait == Frame(0, 0, FALSE)

\* The ghost of a scheduler: the last operation called on it, the
\* configuration it read, the registrations it made, the earlier
\* registrations under the same ids, what it returned (the count of
\* load_jobs_from_config, the id of schedule_job, the value of run_job_now)
\* or raised.
NoCall ==
    [op |-> "none", config |-> [file |-> "none", jobs |-> <<>>], added |-> <<>>,
     replaced |-> <<>>, count |-> 0, jid |-> None, ret |-> "none", exc |-> "none"]

\* HozoScheduler.__init__: no held job, no result callback unless one is
\* given, an APScheduler that is not started and holds no job.
NoScheduler ==
    [_jobs |-> <<>>, _on_result |-> None, state |-> "stopped", pending |-> <<>>,
     store |-> <<>>, last |-> NoCall]

\* The trigger-evaluation loop before its first pass, in seconds: the time
\* now, the period and the next run time of the job's trigger; of the last
\* pass, how many passes there were, how many run times were due, the
\* oldest and the latest of them, how often the job function was called
\* and the event the pass ended with.
NoLoop ==
    [now |-> 0, period |-> 0, next_run_time |-> 0, passes |-> 0, due |-> 0,
     oldest |-> 0, run_time |-> 0, busy |-> FALSE, fired |-> 0, event |-> "none"]

\* No parse_schedule call has been made.
NoParse ==
    [input |-> <<>>, parts |-> <<>>, done |-> FALSE,
     out |-> [ok |-> FALSE,
              trigger |-> [kind |-> "none", day_of_week |-> "", hour |-> 0,
                           minute |-> 0]]]

----------------------------------------------------------------------------
Init ==
    /\ job \in BackupJob
    /\ pc = "wake"
    /\ calls = <<>>
    /\ t = 0
    /\ deadline = 0
    /\ first_poll = TRUE
    /\ ssh_up = FALSE
    /\ drive_ready = FALSE
    /\ wakeReads = 0
    /\ attempt = Unbound
    /\ last_error = None
    /\ snapshots = <<>>
    /\ path = "none"
    /\ syncoidCalls = 0
    /\ firstOk = 0
    /\ retrySleeps = 0
    /\ listing = "none"
    /\ shutdownOutcome = "none"
    /\ exc = "none"
    /\ result = NoResult
    /\ w = NoWait
    /\ sched = NoScheduler
    /\ runs = <<>>
    /\ handlers = {}
    /\ clock = NoLoop
    /\ parseCall = NoParse

\* The login port a remote step of run_job addresses: the probes and the
\* shutdown are given job.ssh_port (job.py 122, 147, 259); run_syncoid has no
\* port parameter and builds no -p option, list_remote_snapshots has none
\* either and leaves run_command's port at its default.
PortAddressed(step, j) ==
    IF step \in {"run_syncoid", "list_remote_snapshots"}
    THEN DefaultPort
    ELSE j.ssh_port

\* run_job propagates an exception: the run ends without a JobResult.
Raise(e) ==
    /\ pc' = "raised"
    /\ exc' = e

\* datetime.now(timezone.utc) when the result is built, counted from
\* started_at (job.py 84): the same reading or a later one, the wall clock
\* being taken not to step back during a run.
FinishedAt == {0, 1}

\* run_job returns r, stamped with the time it was built.
Return(r) ==
    /\ pc' = "done"
    /\ \E now \in FinishedAt : result' = [r EXCEPT !.finished_at = now]

----------------------------------------------------------------------------
(* Step 1: wake, then the grace sleep *)

WakeOutcomes == {"sent", "raise"}

Wake ==
    /\ pc = "wake"
    /\ calls' = Append(calls, "wake")
    /\ \E o \in WakeOutcomes :
         IF o = "raise"
         THEN Raise("wake") /\ UNCHANGED result
         ELSE pc' = "wait_for_ssh" /\ UNCHANGED <<exc, result>>
    /\ UNCHANGED <<job, runs, handlers, clock, parseCall,
                   w, sched, t, deadline, first_poll, ssh_up, drive_ready, wakeReads,
                   attempt, last_error, snapshots, path, syncoidCalls, firstOk,
                   retrySleeps, listing, shutdownOutcome>>

----------------------------------------------------------------------------
(* Step 2: wait_for_ssh (core/ssh.py) *)

\* One socket.create_connection((host, port), timeout=5): it connects, is
\* refused (OSError) or times out (socket.timeout); d is the time it took.
ConnectOutcomes ==
    [kind : {"connected", "refused"}, d : 0..MaxConnTime]
        \cup {[kind |-> "timeout", d |-> ConnectTimeout]}

\* The sleep after a failed attempt, given the time remaining to the deadline.
SshSleep(remaining, poll_interval) ==
    IF remaining > poll_interval THEN poll_interval ELSE Max(0, remaining)

\* ssh.py 32-33: deadline = time.monotonic() + timeout.
EnterWaitForSsh(timeout, poll_interval) ==
    /\ t' = 0
    /\ deadline' = timeout
    /\ w' = Frame(timeout, poll_interval, FALSE)
    /\ pc' = "ssh_loop"

\* job.py 122: run_job passes the job's timeout and leaves poll_interval at
\* its default.
WaitForSsh ==
    /\ pc = "wait_for_ssh"
    /\ calls' = Append(calls, "wait_for_ssh")
    /\ EnterWaitForSsh(job.timeout, PollInterval)
    /\ UNCHANGED <<job, runs, handlers, clock, parseCall,
                   sched, first_poll, ssh_up, drive_ready, wakeReads, attempt,
                   last_error, snapshots, path, syncoidCalls, firstOk, retrySleeps,
                   listing, shutdownOutcome, exc, result>>

\* One evaluation of the while condition and, if it holds, one loop iteration.
SshPoll ==
    /\ pc = "ssh_loop"
    /\ IF t < deadline
       THEN \E o \in ConnectOutcomes :
              IF o.kind = "connected"
              THEN /\ ssh_up' = TRUE
                   /\ pc' = "ssh_returned"
                   /\ t' = 0
                   /\ deadline' = 0
                   /\ w' = [w EXCEPT !.polls = @ + 1, !.pollStart = t,
                                     !.polledAt = t + o.d, !.elapsed = t + o.d]
              ELSE LET t1 == t + o.d
                       s == SshSleep(deadline - t1, w.poll_interval)
                   IN /\ t' = t1 + s
                      /\ w' = [w EXCEPT !.polls = @ + 1, !.notReady = @ + 1,
                                        !.pollStart = t, !.polledAt = t1,
                                        !.remaining = deadline - t1,
                                        !.slept = s, !.sleeps = @ + 1]
                      /\ UNCHANGED <<ssh_up, pc, deadline>>
       ELSE /\ ssh_up' = FALSE
            /\ pc' = "ssh_returned"
            /\ t' = 0
            /\ deadline' = 0
            /\ w' = [w EXCEPT !.elapsed = t]
    /\ UNCHANGED <<job, runs, handlers, clock, parseCall,
                   sched, calls, first_poll, drive_ready, wakeReads, attempt,
                   last_error, snapshots, path, syncoidCalls, firstOk, retrySleeps,
                   listing, shutdownOutcome, exc, result>>

\* Python truthiness of job.backup_device decides the disk gate.
NeedsDriveWait(j) == Truthy(j.backup_device)

\* Position after a gate was passed: the disk gate or the retry loop.
AfterSshUp(j) == IF NeedsDriveWait(j) THEN "wait_for_drive" ELSE "syncoid"

\* Mutant of AfterSsh: the failure return is missing, the run goes on.
AfterSsh_NoReturn ==
    /\ pc = "ssh_returned"
    /\ pc' = AfterSshUp(job)
    /\ w' = NoWait
    /\ UNCHANGED <<job, runs, handlers, clock, parseCall,
                   sched, calls, t, deadline, first_poll, ssh_up, drive_ready,
                   wakeReads, attempt, last_error, snapshots, path, syncoidCalls,
                   firstOk, retrySleeps, listing, shutdownOutcome, exc, result>>

\* job.py 123-136: the reachability failure return, else on to step 2.5 / 3.
\* The frame of the finished wait is gone.
AfterSsh ==
    /\ pc = "ssh_returned"
    /\ IF ~ssh_up
       THEN Return(JobResult(FALSE, SshError(job), <<>>, DefaultAttempts))
       ELSE pc' = AfterSshUp(job) /\ UNCHANGED result
    /\ w' = NoWait
    /\ UNCHANGED <<job, runs, handlers, clock, parseCall,
                   sched, calls, t, deadline, first_poll, ssh_up, drive_ready,
                   wakeReads, attempt, last_error, snapshots, path, syncoidCalls,
                   firstOk, retrySleeps, listing, shutdownOutcome, exc>>

----------------------------------------------------------------------------
(* Step 2.5: wait_for_remote_drive_active (core/disk.py) *)

\* What run_command gives remote_drive_state: a "drive state is:" line with
\* the state text (hdparm prints more states than the docstring lists, such
\* as NVcache_spindown), the hdparm_unavailable echo, other output, or an
\* exception.
HdparmOutcomes ==
    [kind : {"state"},
     value : {"active/idle", "active", "idle", "standby", "sleeping", "unknown",
              "nvcache_spindown"}]
        \cup [kind : {"unavailable", "other", "raise"}, value : {""}]

\* Mutant of remote_drive_state: the except branch answers "standby".
remote_drive_state_Pessimistic(o) ==
    CASE o.kind = "state" -> o.value
      [] o.kind = "unavailable" -> "hdparm_unavailable"
      [] o.kind = "raise" -> "standby"
      [] OTHER -> "unknown"

\* disk.py 49-66: the text after "drive state is:", the hdparm_unavailable
\* echo, "unknown" for other output and for an exception of run_command.
remote_drive_state(o) ==
    CASE o.kind = "state" -> o.value
      [] o.kind = "unavailable" -> "hdparm_unavailable"
      [] OTHER -> "unknown"

is_remote_drive_active(o) ==
    remote_drive_state(o) \in
        {"active/idle", "active", "idle", "unknown", "hdparm_unavailable"}

\* run_job does not pass spin_up_on_standby: the default applies.
SpinUpOnStandby == TRUE

\* disk.py 174-175: deadline and first_poll.
EnterWaitForDrive(timeout, poll_interval, spin_up) ==
    /\ t' = 0
    /\ deadline' = timeout
    /\ first_poll' = TRUE
    /\ w' = Frame(timeout, poll_interval, spin_up)
    /\ pc' = "drive_loop"

\* job.py 143-150: run_job passes the job's disk_spinup_timeout and leaves
\* poll_interval and spin_up_on_standby at their defaults.
WaitForDrive ==
    /\ pc = "wait_for_drive"
    /\ calls' = Append(calls, "wait_for_remote_drive_active")
    /\ EnterWaitForDrive(job.disk_spinup_timeout, PollInterval, SpinUpOnStandby)
    /\ UNCHANGED <<job, runs, handlers, clock, parseCall,
                   sched, ssh_up, drive_ready, wakeReads, attempt, last_error,
                   snapshots, path, syncoidCalls, firstOk, retrySleeps, listing,
                   shutdownOutcome, exc, result>>

\* Mutant of IssuesWakeRead: first_poll is not consulted.
IssuesWakeRead_EveryPoll(first, spin_up) == spin_up

\* disk.py 182: the wake read is issued on this poll.
IssuesWakeRead(first, spin_up) == first /\ spin_up

\* Mutant of DriveSleep: the full poll interval whatever remains.
DriveSleep_Fixed(remaining, poll_interval) == poll_interval

\* disk.py 189: the sleep between polls.
DriveSleep(remaining, poll_interval) == Min(poll_interval, Max(0, remaining))

\* One evaluation of the while condition and, if it holds, one loop iteration;
\* d is the time the state query took, d2 the time the wake read took.
DrivePoll ==
    /\ pc = "drive_loop"
    /\ IF t < deadline
       THEN \E o \in HdparmOutcomes, d \in 0..MaxCmdTime :
              IF is_remote_drive_active(o)
              THEN /\ drive_ready' = TRUE
                   /\ pc' = "drive_returned"
                   /\ t' = 0
                   /\ deadline' = 0
                   /\ first_poll' = TRUE
                   /\ w' = [w EXCEPT !.polls = @ + 1, !.pollStart = t,
                                     !.polledAt = t + d, !.elapsed = t + d,
                                     !.query = o.kind,
                                     !.state = remote_drive_state(o),
                                     !.ready = TRUE]
                   /\ UNCHANGED wakeReads
              ELSE \E d2 \in 0..MaxCmdTime :
                     LET spin == IssuesWakeRead(first_poll, w.spin_up)
                         t1 == IF spin THEN t + d + d2 ELSE t + d
                         s == DriveSleep(deadline - t1, w.poll_interval)
                     IN /\ wakeReads' = IF spin THEN wakeReads + 1 ELSE wakeReads
                        /\ first_poll' = IF spin THEN FALSE ELSE first_poll
                        /\ t' = t1 + s
                        /\ w' = [w EXCEPT !.polls = @ + 1, !.notReady = @ + 1,
                                          !.pollStart = t, !.polledAt = t1,
                                          !.remaining = deadline - t1,
                                          !.slept = s, !.sleeps = @ + 1,
                                          !.query = o.kind,
                                          !.state = remote_drive_state(o),
                                          !.ready = FALSE]
                        /\ UNCHANGED <<drive_ready, pc, deadline>>
       ELSE /\ drive_ready' = FALSE
            /\ pc' = "drive_returned"
            /\ t' = 0
            /\ deadline' = 0
            /\ first_poll' = TRUE
            /\ w' = [w EXCEPT !.elapsed = t]
            /\ UNCHANGED wakeReads
    /\ UNCHANGED <<job, runs, handlers, clock, parseCall,
                   sched, calls, ssh_up, attempt, last_error, snapshots, path,
                   syncoidCalls, firstOk, retrySleeps, listing, shutdownOutcome,
                   exc, result>>

\* Mutant of AfterDrive: the failure return is missing, the run goes on.
AfterDrive_NoReturn ==
    /\ pc = "drive_returned"
    /\ pc' = "syncoid"
    /\ w' = NoWait
    /\ UNCHANGED <<job, runs, handlers, clock, parseCall,
                   sched, calls, t, deadline, first_poll, ssh_up, drive_ready,
                   wakeReads, attempt, last_error, snapshots, path, syncoidCalls,
                   firstOk, retrySleeps, listing, shutdownOutcome, exc, result>>

\* job.py 151-166: the drive failure return, else on to step 3. The frame of
\* the finished wait is gone.
AfterDrive ==
    /\ pc = "drive_returned"
    /\ IF ~drive_ready
       THEN Return(JobResult(FALSE, DriveError(job), <<>>, DefaultAttempts))
       ELSE pc' = "syncoid" /\ UNCHANGED result
    /\ w' = NoWait
    /\ UNCHANGED <<job, runs, handlers, clock, parseCall,
                   sched, calls, t, deadline, first_poll, ssh_up, drive_ready,
                   wakeReads, attempt, last_error, snapshots, path, syncoidCalls,
                   firstOk, retrySleeps, listing, shutdownOutcome, exc>>

----------------------------------------------------------------------------
(* Step 3: run_syncoid with retries (job.py 167-201) *)

\* str(SyncoidError(returncode, stderr)): backup.py 18.
StrSyncoidError(rc, stderr) == "syncoid exited " \o rc \o ": " \o stderr

\* What one run_syncoid call does: it returns, raises SyncoidError (nonzero
\* exit), raises FileNotFoundError (no syncoid binary), or raises another
\* exception; msg is str(exc), which is empty for an exception built with no
\* arguments (MemoryError(), for one).
SyncoidOutcomes ==
    {[kind |-> "returned", msg |-> ""],
     [kind |-> "SyncoidError", msg |-> StrSyncoidError("1", "dataset not found")],
     [kind |-> "SyncoidError", msg |-> StrSyncoidError("2", "")],
     [kind |-> "FileNotFoundError",
      msg |-> "[Errno 2] No such file or directory: 'syncoid'"],
     [kind |-> "Exception", msg |-> "Command 'syncoid' timed out after 3600 seconds"],
     [kind |-> "Exception", msg |-> ""]}

\* Mutant of NextAttempt: the loop variable never advances.
NextAttempt_Stuck == IF attempt = Unbound THEN 1 ELSE attempt

\* range(1, job.retries + 1): the value the loop variable takes next.
NextAttempt == IF attempt = Unbound THEN 1 ELSE attempt + 1

\* Mutant of LoopPcAfter: a failed attempt restarts from the reachability wait.
LoopPcAfter_RetryFromSsh(returned) ==
    IF returned THEN "after_loop" ELSE "wait_for_ssh"

\* Mutant of LoopPcAfter: no break after a successful attempt.
LoopPcAfter_NoBreak(returned) == "syncoid"

\* Where the loop goes after an attempt: break on success, else the next
\* iteration (job.py 185, 186-201).
LoopPcAfter(returned) == IF returned THEN "after_loop" ELSE "syncoid"

\* last_error after an attempt (job.py 184, 187, 197).
LastErrorAfter(o) == IF o.kind = "returned" THEN None ELSE o.msg

\* Mutant of RetrySleep: the delay is slept after every failed attempt.
RetrySleep_Always(failed, n) == failed

\* job.py 194-196, 199-201: time.sleep(job.retry_delay) after failed attempt
\* n, in either except clause, if attempts remain.
RetrySleep(failed, n) == failed /\ n < job.retries

SyncoidAttempt ==
    /\ pc = "syncoid"
    /\ NextAttempt <= job.retries
    /\ attempt' = NextAttempt
    /\ calls' = Append(calls, "run_syncoid")
    /\ syncoidCalls' = syncoidCalls + 1
    /\ \E o \in SyncoidOutcomes :
         /\ last_error' = LastErrorAfter(o)
         /\ pc' = LoopPcAfter(o.kind = "returned")
         /\ firstOk' = IF o.kind = "returned" /\ firstOk = 0
                       THEN syncoidCalls + 1 ELSE firstOk
         /\ retrySleeps' = IF RetrySleep(o.kind # "returned", NextAttempt)
                           THEN retrySleeps + 1 ELSE retrySleeps
    /\ UNCHANGED <<job, runs, handlers, clock, parseCall,
                   w, sched, t, deadline, first_poll, ssh_up, drive_ready, wakeReads,
                   snapshots, path, listing, shutdownOutcome, exc, result>>

\* The for loop ends: range() is exhausted (at once when retries <= 0).
LoopExhausted ==
    /\ pc = "syncoid"
    /\ NextAttempt > job.retries
    /\ pc' = "after_loop"
    /\ UNCHANGED <<job, runs, handlers, clock, parseCall,
                   w, sched, calls, t, deadline, first_poll, ssh_up, drive_ready,
                   wakeReads, attempt, last_error, snapshots, path, syncoidCalls,
                   firstOk, retrySleeps, listing, shutdownOutcome, exc, result>>

\* Mutant of AllAttemptsFailed: the test is `if last_error is not None:`.
AllAttemptsFailed_NotNone(le) == le # None

\* job.py 203: `if last_error:` takes the failure branch.
AllAttemptsFailed(le) == Truthy(le)

AfterLoop ==
    /\ pc = "after_loop"
    /\ IF AllAttemptsFailed(last_error)
       THEN pc' = "shutdown" /\ path' = "exhausted"
       ELSE pc' = "list_snapshots" /\ UNCHANGED path
    /\ UNCHANGED <<job, runs, handlers, clock, parseCall,
                   w, sched, calls, t, deadline, first_poll, ssh_up, drive_ready,
                   wakeReads, attempt, last_error, snapshots, syncoidCalls,
                   firstOk, retrySleeps, listing, shutdownOutcome, exc, result>>

----------------------------------------------------------------------------
(* Step 4: list_remote_snapshots (backup.py 181-206) *)

\* run_command for `zfs list`: exit 0 with the names, a nonzero exit, or an
\* exception of the SSH transport (connect refused, auth failure, ...).
ListOutcomes ==
    [kind : {"exit 0"}, names : {<<>>, <<"backup/data@snap1">>}]
        \cup [kind : {"nonzero", "raise"}, names : {<<>>}]

\* What list_remote_snapshots does with it: "raise" stands for the exception
\* leaving the function, which has no try around run_command.
list_remote_snapshots(o) ==
    CASE o.kind = "exit 0" -> [raised |-> FALSE, names |-> o.names]
      [] o.kind = "nonzero" -> [raised |-> FALSE, names |-> <<>>]
      [] OTHER -> [raised |-> TRUE, names |-> <<>>]

ListSnapshots ==
    /\ pc = "list_snapshots"
    /\ calls' = Append(calls, "list_remote_snapshots")
    /\ \E o \in ListOutcomes :
         /\ listing' = o.kind
         /\ IF list_remote_snapshots(o).raised
            THEN Raise("list_remote_snapshots") /\ UNCHANGED <<snapshots, path>>
            ELSE /\ snapshots' = list_remote_snapshots(o).names
                 /\ pc' = "shutdown"
                 /\ path' = "success"
                 /\ UNCHANGED exc
    /\ UNCHANGED <<job, runs, handlers, clock, parseCall,
                   w, sched, t, deadline, first_poll, ssh_up, drive_ready, wakeReads,
                   attempt, last_error, syncoidCalls, firstOk, retrySleeps,
                   shutdownOutcome, result>>

----------------------------------------------------------------------------
(* Step 5: _maybe_shutdown (job.py 249-269) *)

\* run_command for `shutdown -h now`: exit 0, -1 (connection dropped), another
\* code, or an exception.
ShutdownOutcomes == {"exit 0", "exit -1", "exit 1", "raise"}

\* Mutant of ShutdownEffect: no except clause, the exception propagates.
ShutdownEffect_NoCatch(o) ==
    CASE o \in {"exit 0", "exit -1"} -> "quiet"
      [] o = "raise" -> "propagated"
      [] OTHER -> "warning"

\* What _maybe_shutdown does with it; nothing propagates.
ShutdownEffect(o) ==
    CASE o \in {"exit 0", "exit -1"} -> "quiet"
      [] o = "raise" -> "swallowed"
      [] OTHER -> "warning"

\* Mutant of MaybeShutdown: the shutdown_after flag is not consulted.
MaybeShutdown_IgnoresFlag ==
    /\ pc = "shutdown"
    /\ calls' = Append(calls, "shutdown")
    /\ \E o \in ShutdownOutcomes : shutdownOutcome' = o
    /\ pc' = "return"
    /\ UNCHANGED <<job, runs, handlers, clock, parseCall,
                   w, sched, t, deadline, first_poll, ssh_up, drive_ready, wakeReads,
                   attempt, last_error, snapshots, path, syncoidCalls, firstOk,
                   retrySleeps, listing, exc, result>>

MaybeShutdown ==
    /\ pc = "shutdown"
    /\ IF ~job.shutdown_after
       THEN pc' = "return" /\ UNCHANGED <<calls, shutdownOutcome, exc>>
       ELSE /\ calls' = Append(calls, "shutdown")
            /\ \E o \in ShutdownOutcomes :
                 /\ shutdownOutcome' = o
                 /\ IF ShutdownEffect(o) = "propagated"
                    THEN Raise("shutdown")
                    ELSE pc' = "return" /\ UNCHANGED exc
    /\ UNCHANGED <<job, runs, handlers, clock, parseCall,
                   w, sched, t, deadline, first_poll, ssh_up, drive_ready, wakeReads,
                   attempt, last_error, snapshots, path, syncoidCalls, firstOk,
                   retrySleeps, listing, result>>

\* attempts= of the success result: the loop variable (job.py 237).
SuccessAttempts == attempt

\* The two returns after _maybe_shutdown: job.py 209-217 and 231-246. Reading
\* the loop variable when the loop body never ran is an UnboundLocalError.
ReturnResult ==
    /\ pc = "return"
    /\ IF path = "exhausted"
       THEN Return(JobResult(FALSE, last_error, <<>>, job.retries)) /\ UNCHANGED exc
       ELSE IF attempt = Unbound
            THEN Raise("UnboundLocalError") /\ UNCHANGED result
            ELSE Return(JobResult(TRUE, None, snapshots, SuccessAttempts))
                     /\ UNCHANGED exc
    /\ UNCHANGED <<job, runs, handlers, clock, parseCall,
                   w, sched, calls, t, deadline, first_poll, ssh_up, drive_ready,
                   wakeReads, attempt, last_error, snapshots, path, syncoidCalls,
                   firstOk, retrySleeps, listing, shutdownOutcome>>

----------------------------------------------------------------------------
Next ==
    \/ Wake
    \/ WaitForSsh
    \/ SshPoll
    \/ AfterSsh
    \/ WaitForDrive
    \/ DrivePoll
    \/ AfterDrive
    \/ SyncoidAttempt
    \/ LoopExhausted
    \/ AfterLoop
    \/ ListSnapshots
    \/ MaybeShutdown
    \/ ReturnResult

Spec == Init /\ [][Next]_vars

\* Every external call returns and the run is scheduled: a step that can be
\* taken is eventually taken.
SpecLive == Spec /\ WF_vars(Next)

----------------------------------------------------------------------------
(* The probers called directly, with any arguments *)

Timeouts == 0..MaxTimeout
PollIntervals == 1..PollInterval

\* The caller of a direct call is not a run_job execution.
NoJob ==
    [name |-> None, target_host |-> "backup.local", shutdown_after |-> FALSE,
     timeout |-> 0, retries |-> 0, backup_device |-> None,
     disk_spinup_timeout |-> 0, ssh_port |-> DefaultPort, schedule |-> <<>>]

NoRun ==
    /\ job = NoJob
    /\ calls = <<>>
    /\ t = 0
    /\ deadline = 0
    /\ first_poll = TRUE
    /\ ssh_up = FALSE
    /\ drive_ready = FALSE
    /\ wakeReads = 0
    /\ attempt = Unbound
    /\ last_error = None
    /\ snapshots = <<>>
    /\ path = "none"
    /\ syncoidCalls = 0
    /\ firstOk = 0
    /\ retrySleeps = 0
    /\ listing = "none"
    /\ shutdownOutcome = "none"
    /\ exc = "none"
    /\ result = NoResult
    /\ w = NoWait
    /\ runs = <<>>
    /\ handlers = {}
    /\ clock = NoLoop
    /\ parseCall = NoParse

\* wait_for_ssh(host, timeout=T, poll_interval=p)
CallWaitForSsh ==
    /\ pc = "call_wait_for_ssh"
    /\ \E T \in Timeouts, p \in PollIntervals : EnterWaitForSsh(T, p)
    /\ UNCHANGED <<job, runs, handlers, clock, parseCall,
                   sched, calls, first_poll, ssh_up, drive_ready, wakeReads,
                   attempt, last_error, snapshots, path, syncoidCalls, firstOk,
                   retrySleeps, listing, shutdownOutcome, exc, result>>

InitSsh == pc = "call_wait_for_ssh" /\ sched = NoScheduler /\ NoRun

NextSsh == CallWaitForSsh \/ SshPoll

SpecSsh == InitSsh /\ [][NextSsh]_vars

\* wait_for_remote_drive_active(host, device, timeout=T, poll_interval=p,
\*                              spin_up_on_standby=b)
CallWaitForDrive ==
    /\ pc = "call_wait_for_drive"
    /\ \E T \in Timeouts, p \in PollIntervals, b \in BOOLEAN :
         EnterWaitForDrive(T, p, b)
    /\ UNCHANGED <<job, runs, handlers, clock, parseCall,
                   sched, calls, ssh_up, drive_ready, wakeReads, attempt,
                   last_error, snapshots, path, syncoidCalls, firstOk, retrySleeps,
                   listing, shutdownOutcome, exc, result>>

InitDrive == pc = "call_wait_for_drive" /\ sched = NoScheduler /\ NoRun

NextDrive == CallWaitForDrive \/ DrivePoll

SpecDrive == InitDrive /\ [][NextDrive]_vars

----------------------------------------------------------------------------
(* The scheduler (scheduler/runner.py) *)

MaxPending == 2

(* Python strings that are parsed are sequences of characters *)

UpperCase == <<"A", "B", "C", "D", "E", "F", "G", "H", "I", "J", "K", "L", "M", "N", "O", "P", "Q", "R", "S", "T", "U", "V", "W", "X", "Y", "Z">>
LowerCase == <<"a", "b", "c", "d", "e", "f", "g", "h", "i", "j", "k", "l", "m", "n", "o", "p", "q", "r", "s", "t", "u", "v", "w", "x", "y", "z">>
Digits == <<"0", "1", "2", "3", "4", "5", "6", "7", "8", "9">>
Whitespace == {" ", "\t", "\n"}

\* str.lower() on one character, then on a string.
LowerChar(c) ==
    IF \E i \in 1..Len(UpperCase) : UpperCase[i] = c
    THEN LowerCase[CHOOSE i \in 1..Len(UpperCase) : UpperCase[i] = c]
    ELSE c

Lower(str) == [i \in 1..Len(str) |-> LowerChar(str[i])]

\* int() of one decimal digit.
DigitVal(c) == (CHOOSE i \in 1..Len(Digits) : Digits[i] = c) - 1

IsDigit(c) == \E i \in 1..Len(Digits) : Digits[i] = c

RECURSIVE LStrip(_)
LStrip(str) ==
    IF str # <<>> /\ Head(str) \in Whitespace THEN LStrip(Tail(str)) ELSE str

RECURSIVE RStrip(_)
RStrip(str) ==
    IF str # <<>> /\ str[Len(str)] \in Whitespace
    THEN RStrip(SubSeq(str, 1, Len(str) - 1))
    ELSE str

\* str.strip()
Strip(str) == RStrip(LStrip(str))

\* The maximal whitespace-free pieces of a string, in order: what the \s+
\* separators of the two patterns leave between them.
RECURSIVE Words(_, _)
Words(str, cur) ==
    IF str = <<>>
    THEN IF cur = <<>> THEN <<>> ELSE <<cur>>
    ELSE IF Head(str) \in Whitespace
         THEN IF cur = <<>>
              THEN Words(Tail(str), <<>>)
              ELSE <<cur>> \o Words(Tail(str), <<>>)
         ELSE Words(Tail(str), Append(cur, Head(str)))

\* (\d{2}):(\d{2})
IsTime(word) ==
    /\ Len(word) = 5
    /\ IsDigit(word[1]) /\ IsDigit(word[2])
    /\ word[3] = ":"
    /\ IsDigit(word[4]) /\ IsDigit(word[5])

\* int(hh), int(mm)
Hour(word) == 10 * DigitVal(word[1]) + DigitVal(word[2])
Minute(word) == 10 * DigitVal(word[4]) + DigitVal(word[5])

KwDaily == <<"d", "a", "i", "l", "y">>
KwWeekly == <<"w", "e", "e", "k", "l", "y">>

\* _DOW_MAP
DOW_MAP ==
    << [name |-> <<"m", "o", "n", "d", "a", "y">>, dow |-> "mon"],
       [name |-> <<"t", "u", "e", "s", "d", "a", "y">>, dow |-> "tue"],
       [name |-> <<"w", "e", "d", "n", "e", "s", "d", "a", "y">>, dow |-> "wed"],
       [name |-> <<"t", "h", "u", "r", "s", "d", "a", "y">>, dow |-> "thu"],
       [name |-> <<"f", "r", "i", "d", "a", "y">>, dow |-> "fri"],
       [name |-> <<"s", "a", "t", "u", "r", "d", "a", "y">>, dow |-> "sat"],
       [name |-> <<"s", "u", "n", "d", "a", "y">>, dow |-> "sun"] >>

IsDayName(word) == \E i \in 1..Len(DOW_MAP) : DOW_MAP[i].name = word

Dow(word) == (CHOOSE e \in {DOW_MAP[i] : i \in 1..Len(DOW_MAP)} : e.name = word).dow

\* _WEEKLY_RE and _DAILY_RE with re.IGNORECASE, applied to the stripped string.
WeeklyMatch(str) ==
    LET ws == Words(Lower(Strip(str)), <<>>)
    IN /\ Len(ws) = 3
       /\ ws[1] = KwWeekly
       /\ IsDayName(ws[2])
       /\ IsTime(ws[3])

DailyMatch(str) ==
    LET ws == Words(Lower(Strip(str)), <<>>)
    IN /\ Len(ws) = 2
       /\ ws[1] = KwDaily
       /\ IsTime(ws[2])

\* CronTrigger(...): the constructor raises ValueError for an hour above 23
\* or a minute above 59; day_of_week defaults to every day.
CronTrigger(day_of_week, hour, minute) ==
    IF hour > 23 \/ minute > 59
    THEN [ok |-> FALSE, trigger |-> [kind |-> "none", day_of_week |-> "", hour |-> 0, minute |-> 0]]
    ELSE [ok |-> TRUE,
          trigger |-> [kind |-> "cron", day_of_week |-> day_of_week,
                       hour |-> hour, minute |-> minute]]

ValueError ==
    [ok |-> FALSE, trigger |-> [kind |-> "none", day_of_week |-> "", hour |-> 0, minute |-> 0]]

\* Mutant of parse_schedule: a weekly schedule gives a trigger of every day.
parse_schedule_EveryDay(schedule_str) ==
    LET ws == Words(Lower(Strip(schedule_str)), <<>>)
    IN IF WeeklyMatch(schedule_str)
       THEN CronTrigger("*", Hour(ws[3]), Minute(ws[3]))
       ELSE IF DailyMatch(schedule_str)
            THEN CronTrigger("*", Hour(ws[2]), Minute(ws[2]))
            ELSE ValueError

\* parse_schedule: ok is FALSE where the code raises ValueError.
parse_schedule(schedule_str) ==
    LET ws == Words(Lower(Strip(schedule_str)), <<>>)
    IN IF WeeklyMatch(schedule_str)
       THEN CronTrigger(Dow(ws[2]), Hour(ws[3]), Minute(ws[3]))
       ELSE IF DailyMatch(schedule_str)
            THEN CronTrigger("*", Hour(ws[2]), Minute(ws[2]))
            ELSE ValueError

(* Configuration files *)

\* A raw job without a "schedule" key.
Absent == <<"<", "a", "b", "s", "e", "n", "t", ">">>

SDaily == <<"d", "a", "i", "l", "y", " ", "0", "3", ":", "0", "0">>
SWeekly == <<" ", "W", "e", "e", "k", "l", "y", " ", " ", "S", "u", "n", "d", "a", "y", " ", "2", "3", ":", "5", "9">>
SHourly == <<"h", "o", "u", "r", "l", "y">>
SRange == <<"d", "a", "i", "l", "y", " ", "2", "5", ":", "0", "0">>

Schedules == {Absent, <<>>, SDaily, SWeekly, SHourly, SRange}

\* raw.get("schedule", "")
GetSchedule(raw) == IF raw.schedule = Absent THEN <<>> ELSE raw.schedule

\* The raw jobs of the configuration files read by the scheduler: job X in
\* two definitions and with every kind of schedule, job Y.
RawJobs ==
    [name : {"X"}, source : {"tank/a", "tank/b"}, schedule : {Absent, SDaily, SWeekly}]
        \cup [name : {"X"}, source : {"tank/a"}, schedule : {SHourly}]
        \cup [name : {"Y"}, source : {"tank/a"}, schedule : {Absent, SDaily}]

\* What load_config returns: None for an empty file, else the mapping with
\* its list of jobs (none, one or two jobs).
Configs ==
    {[file |-> "empty", jobs |-> <<>>]}
        \cup [file : {"mapping"},
              jobs : {<<>>} \cup {<<a>> : a \in RawJobs}
                        \cup {<<a, b>> : a, b \in RawJobs}]

\* loader.py jobs_from_config: one BackupJob per raw job; the raw schedule
\* is not carried into the BackupJob.
ConfigJob(raw) == [name |-> raw.name, source_dataset |-> raw.source]

jobs_from_config(config) ==
    [i \in 1..Len(config.jobs) |-> ConfigJob(config.jobs[i])]

(* APScheduler's BackgroundScheduler with its default memory job store *)

JobEntry(id, trigger, j) == [id |-> id, trigger |-> trigger, job |-> j]

\* Mutant of RealAddJob: an entry with a known id is added beside the old one.
RealAddJob_NoReplace(store, e) == Append(store, e)

\* _real_add_job with replace_existing=True: an entry with the same id is
\* replaced, otherwise the entry is added.
RealAddJob(store, e) ==
    IF \E i \in 1..Len(store) : store[i].id = e.id
    THEN [i \in 1..Len(store) |-> IF store[i].id = e.id THEN e ELSE store[i]]
    ELSE Append(store, e)

\* add_job: while the scheduler is not running the entry is kept pending,
\* to be added for real when it starts.
AddJob(s, e) ==
    IF s.state = "stopped"
    THEN [s EXCEPT !.pending = Append(@, e)]
    ELSE [s EXCEPT !.store = RealAddJob(@, e)]

\* Every job the scheduler holds: get_jobs().
Triggers(s) == s.store \o s.pending

\* The registrations in place whose id is among those of the entries es.
SameId(s, es) ==
    SelectSeq(Triggers(s), LAMBDA e : \E k \in 1..Len(es) : es[k].id = e.id)

RECURSIVE AddAll(_, _)
AddAll(s, es) == IF es = <<>> THEN s ELSE AddAll(AddJob(s, Head(es)), Tail(es))

RECURSIVE RealAddAll(_, _)
RealAddAll(store, es) ==
    IF es = <<>> THEN store ELSE RealAddAll(RealAddJob(store, Head(es)), Tail(es))

\* The entries the loop of load_jobs_from_config registers for the raw jobs
\* from index i on: a job with a falsy or unparseable schedule is skipped.
RECURSIVE Registrations(_, _, _)
Registrations(held, raws, i) ==
    IF i > Len(raws) \/ i > Len(held) THEN <<>>
    ELSE LET schedule_str == GetSchedule(raws[i])
             parsed == parse_schedule(schedule_str)
         IN IF schedule_str = <<>> \/ ~parsed.ok
            THEN Registrations(held, raws, i + 1)
            ELSE <<JobEntry(held[i].name, parsed.trigger, held[i])>>
                    \o Registrations(held, raws, i + 1)

\* The registrations of each configuration file, tabulated.
Registered ==
    [config \in Configs |->
        Registrations(jobs_from_config(config), config.jobs, 1)] @@ <<>>

\* load_jobs_from_config(config_path), the file holding config.
\* The scheduler s after load_jobs_from_config has read config.
Loaded(s, config) ==
    IF config.file = "empty"
    THEN [s EXCEPT !.last = [NoCall EXCEPT !.op = "load", !.config = config]]
    ELSE LET held == jobs_from_config(config)
             added == Registered[config]
         IN [AddAll([s EXCEPT !._jobs = held], added)
               EXCEPT !.last = [NoCall EXCEPT !.op = "load",
                                              !.config = config,
                                              !.added = added,
                                              !.replaced = SameId(s, added),
                                              !.count = Len(added)]]

\* The pending list stays within its bound when s loads config.
RoomFor(s, config) ==
    config.file = "mapping"
        => Len(s.pending) + Len(Registered[config]) <= MaxPending

LoadJobsFromConfig ==
    /\ pc = "scheduler"
    /\ \E config \in Configs :
         /\ RoomFor(sched, config)
         /\ sched' = Loaded(sched, config)
    /\ UNCHANGED <<job, runs, handlers, clock, parseCall,
                   pc, calls, t, deadline, first_poll, ssh_up, drive_ready,
                   wakeReads, attempt, last_error, snapshots, path, syncoidCalls,
                   firstOk, retrySleeps, listing, shutdownOutcome, exc, result, w>>

\* The arguments of schedule_job: a job, any trigger, an optional id.
AdhocJobs == [name : {"X"}, source_dataset : {"tank/a", "tank/b"}]
AdhocTriggers == {[kind |-> "date", day_of_week |-> "", hour |-> 0, minute |-> 0]}
JobIds == {None, "", "adhoc"}

InHeld(held, j) == \E i \in 1..Len(held) : held[i] = j

\* schedule_job(job, trigger, job_id)
ScheduleJob ==
    /\ pc = "scheduler"
    /\ Len(sched.pending) < MaxPending
    /\ \E j \in AdhocJobs, trigger \in AdhocTriggers, job_id \in JobIds :
         LET jid == IF Truthy(job_id) THEN job_id ELSE j.name
             held == IF InHeld(sched._jobs, j) THEN sched._jobs
                     ELSE Append(sched._jobs, j)
             e == JobEntry(jid, trigger, j)
         IN sched' = [AddJob([sched EXCEPT !._jobs = held], e)
                        EXCEPT !.last = [NoCall EXCEPT !.op = "schedule_job",
                                                       !.added = <<e>>,
                                                       !.replaced = SameId(sched, <<e>>),
                                                       !.jid = jid]]
    /\ UNCHANGED <<job, runs, handlers, clock, parseCall,
                   pc, calls, t, deadline, first_poll, ssh_up, drive_ready,
                   wakeReads, attempt, last_error, snapshots, path, syncoidCalls,
                   firstOk, retrySleeps, listing, shutdownOutcome, exc, result, w>>

\* start(): BackgroundScheduler.start adds the pending entries for real, in
\* the order they were given; it raises if the scheduler is running.
Started(s) ==
    IF s.state = "running"
    THEN [s EXCEPT !.last = [NoCall EXCEPT !.op = "start",
                                           !.exc = "SchedulerAlreadyRunningError"]]
    ELSE [s EXCEPT !.state = "running",
                   !.store = RealAddAll(@, s.pending),
                   !.pending = <<>>,
                   !.last = [NoCall EXCEPT !.op = "start"]]

Start ==
    /\ pc = "scheduler"
    /\ sched' = Started(sched)
    /\ UNCHANGED <<job, runs, handlers, clock, parseCall,
                   pc, calls, t, deadline, first_poll, ssh_up, drive_ready,
                   wakeReads, attempt, last_error, snapshots, path, syncoidCalls,
                   firstOk, retrySleeps, listing, shutdownOutcome, exc, result, w>>

\* stop(): BackgroundScheduler.shutdown empties the memory job store; it
\* raises if the scheduler is not running.
\* Mutant of Stopped: the call leaves the scheduler as it is.
Stopped_NoEffect(s) == [s EXCEPT !.last = [NoCall EXCEPT !.op = "stop"]]

Stopped(s) ==
    IF s.state = "stopped"
    THEN [s EXCEPT !.last = [NoCall EXCEPT !.op = "stop",
                                           !.exc = "SchedulerNotRunningError"]]
    ELSE [s EXCEPT !.state = "stopped",
                   !.store = <<>>,
                   !.last = [NoCall EXCEPT !.op = "stop"]]

Stop ==
    /\ pc = "scheduler"
    /\ sched' = Stopped(sched)
    /\ UNCHANGED <<job, runs, handlers, clock, parseCall,
                   pc, calls, t, deadline, first_poll, ssh_up, drive_ready,
                   wakeReads, attempt, last_error, snapshots, path, syncoidCalls,
                   firstOk, retrySleeps, listing, shutdownOutcome, exc, result, w>>

InitSched == pc = "scheduler" /\ sched = NoScheduler /\ NoRun

NextSched == LoadJobsFromConfig \/ ScheduleJob \/ Start \/ Stop

SpecSched == InitSched /\ [][NextSched]_vars

----------------------------------------------------------------------------
(* The scheduler at run time: triggers fire, runs are in flight, the web
   application reloads (scheduler/runner.py, api/routes.py) *)

MaxRuns == 2

\* The outcomes of one run_job execution: a JobResult with success true or
\* false, or an exception (run_job has no except clause).
RunOutcomes == {"success", "failure", "raise"}

\* The outcomes of one call of the result callback.
CallbackOutcomes == {"return", "raise"}

\* A run_job execution begun with BackupJob j: by a fired trigger (through
\* _run_job_wrapper of a scheduler whose callback is on_result) or by
\* run_job_now. Ghosts: the definition it ran, how it ended, how often its
\* result reached the callback and how the callback ended, whether an
\* exception left the wrapper or run_job_now, whether its result was
\* returned to the caller of run_job_now, whether a reload happened while
\* it was in flight, whether it began after a callback had raised, and the
\* state of the scheduler when it ended. log_lines is the list run_job
\* creates and hands to the JobResult.
NewRun(j, via, on_result, after_raise) ==
    [job |-> j, via |-> via, on_result |-> on_result, phase |-> "running",
     ran |-> j, outcome |-> "none", delivered |-> 0, callback |-> "none",
     escaped |-> FALSE, returned |-> FALSE, reloaded |-> FALSE,
     after_raise |-> after_raise, ended_while |-> "none", log_lines |-> <<>>]

InFlight(i) == runs[i].phase = "running"

\* APScheduler's default max_instances is 1: a job with a run in flight is
\* not submitted again.
InstanceRunning(id) ==
    \E i \in 1..Len(runs) :
        InFlight(i) /\ runs[i].via = "trigger" /\ runs[i].job.name = id

\* A callback of an earlier run has raised.
CallbackRaised == \E i \in 1..Len(runs) : runs[i].callback = "raise"

\* A trigger of the running scheduler fires: the executor calls
\* _run_job_wrapper(job) with the job of the store entry.
Fire ==
    /\ sched.state = "running"
    /\ Len(runs) < MaxRuns
    /\ \E k \in 1..Len(sched.store) :
         /\ ~InstanceRunning(sched.store[k].id)
         /\ runs' = Append(runs, NewRun(sched.store[k].job, "trigger",
                                        sched._on_result, CallbackRaised))
    /\ UNCHANGED <<job, handlers, clock, parseCall, sched,
                   pc, calls, t, deadline, first_poll, ssh_up, drive_ready,
                   wakeReads, attempt, last_error, snapshots, path, syncoidCalls,
                   firstOk, retrySleeps, listing, shutdownOutcome, exc, result, w>>

JobNames == {"X", "Z"}

\* The first held job with this name.
FirstHeld(held, name) ==
    held[CHOOSE i \in 1..Len(held) :
            /\ held[i].name = name
            /\ \A k \in 1..(i - 1) : held[k].name # name]

\* run_job_now(job_name) is called, from any thread: run_job begins inline
\* for the first held job with that name, or None is returned.
CallRunJobNow ==
    /\ pc \in {"scheduler", "hot_reload"}
    /\ \E name \in JobNames :
         IF \E i \in 1..Len(sched._jobs) : sched._jobs[i].name = name
         THEN /\ Len(runs) < MaxRuns
              /\ runs' = Append(runs, NewRun(FirstHeld(sched._jobs, name),
                                             "run_job_now", None, CallbackRaised))
              /\ UNCHANGED sched
         ELSE /\ sched' = [sched EXCEPT !.last = [NoCall EXCEPT !.op = "run_job_now",
                                                                !.config = sched.last.config,
                                                                !.jid = name,
                                                                !.ret = "None"]]
              /\ UNCHANGED runs
    /\ UNCHANGED <<job, handlers, clock, parseCall,
                   pc, calls, t, deadline, first_poll, ssh_up, drive_ready,
                   wakeReads, attempt, last_error, snapshots, path, syncoidCalls,
                   firstOk, retrySleeps, listing, shutdownOutcome, exc, result, w>>

\* Mutant of RanDefinition: the definition is looked up by name in the held
\* list when the run ends.
RanDefinition_FromHeld(run, s) ==
    IF \E i \in 1..Len(s._jobs) : s._jobs[i].name = run.job.name
    THEN FirstHeld(s._jobs, run.job.name)
    ELSE run.job

\* The definition a run works on: the BackupJob object it was called with.
RanDefinition(run, s) == run.job

\* Mutant of Wrapped: the callback is called outside any try.
Wrapped_NoTry(run, outcome, cb) ==
    IF outcome = "raise"
    THEN [run EXCEPT !.phase = "raised", !.outcome = outcome, !.escaped = TRUE]
    ELSE IF Truthy(run.on_result)
         THEN [run EXCEPT !.phase = IF cb = "raise" THEN "raised" ELSE "returned",
                          !.outcome = outcome,
                          !.delivered = @ + 1,
                          !.callback = cb,
                          !.escaped = (cb = "raise")]
         ELSE [run EXCEPT !.phase = "returned", !.outcome = outcome]

\* _run_job_wrapper after run_job has ended with outcome: an exception of
\* run_job leaves the wrapper; a result goes to the callback, if there is
\* one, and an exception of the callback is caught.
Wrapped(run, outcome, cb) ==
    IF outcome = "raise"
    THEN [run EXCEPT !.phase = "raised", !.outcome = outcome, !.escaped = TRUE]
    ELSE IF Truthy(run.on_result)
         THEN [run EXCEPT !.phase = "returned",
                          !.outcome = outcome,
                          !.delivered = @ + 1,
                          !.callback = cb]
         ELSE [run EXCEPT !.phase = "returned", !.outcome = outcome]

\* run_job_now after run_job has ended: the result is returned to the
\* caller, an exception leaves run_job_now.
Inline(run, outcome) ==
    IF outcome = "raise"
    THEN [run EXCEPT !.phase = "raised", !.outcome = outcome, !.escaped = TRUE]
    ELSE [run EXCEPT !.phase = "returned", !.outcome = outcome, !.returned = TRUE]

\* The runs still in flight, in the order they began, but for run i.
OthersInFlight(i) ==
    SelectSeq([k \in 1..Len(runs) |-> IF k = i THEN [runs[k] EXCEPT !.phase = "this"]
                                      ELSE runs[k]],
              LAMBDA r : r.phase = "running")

\* Run i, in flight, ends: run_job returns or raises into its caller. Of
\* the runs that have ended only the last is remembered.
Ending(i) ==
    \E outcome \in RunOutcomes, cb \in CallbackOutcomes :
        /\ InFlight(i)
        /\ LET run == [runs[i] EXCEPT !.ran = RanDefinition(runs[i], sched),
                                      !.ended_while = sched.state]
           IN runs' = Append(OthersInFlight(i),
                             IF run.via = "trigger"
                             THEN Wrapped(run, outcome, cb)
                             ELSE Inline(run, outcome))

RunEnds ==
    /\ \E i \in 1..Len(runs) : Ending(i)
    /\ UNCHANGED <<job, handlers, clock, parseCall, sched,
                   pc, calls, t, deadline, first_poll, ssh_up, drive_ready,
                   wakeReads, attempt, last_error, snapshots, path, syncoidCalls,
                   firstOk, retrySleeps, listing, shutdownOutcome, exc, result, w>>

\* loader.py _WEEKLY_RE and _DAILY_RE: the schedule is matched as written
\* (not stripped; $ also matches before one final newline) and the time is
\* not split into hour and minute.
LoaderMatch(str) ==
    LET core == IF str # <<>> /\ str[Len(str)] = "\n"
                THEN SubSeq(str, 1, Len(str) - 1)
                ELSE str
    IN /\ core # <<>>
       /\ Head(core) \notin Whitespace
       /\ core[Len(core)] \notin Whitespace
       /\ WeeklyMatch(core) \/ DailyMatch(core)

\* validate_config finds no error: the job list is not empty and every
\* schedule that is present matches (the modelled raw jobs have every
\* required field and no MAC address error).
validate_config(config) ==
    /\ config.jobs # <<>>
    /\ \A i \in 1..Len(config.jobs) :
          GetSchedule(config.jobs[i]) # <<>>
             => LoaderMatch(GetSchedule(config.jobs[i]))

\* The configuration files read at run time.
RunConfigs ==
    [file : {"mapping"},
     jobs : {<<[name |-> "X", source |-> "tank/a", schedule |-> SDaily]>>,
             <<[name |-> "X", source |-> "tank/b", schedule |-> SDaily]>>,
             <<[name |-> "X", source |-> "tank/b", schedule |-> SWeekly]>>}]

\* The runs in flight have seen a reload.
DuringReload(rs) ==
    [i \in 1..Len(rs) |-> IF rs[i].phase = "running"
                          THEN [rs[i] EXCEPT !.reloaded = TRUE]
                          ELSE rs[i]]

\* load_jobs_from_config on the scheduler in use: before it is first
\* started, or while it runs and runs may be in flight.
Reload ==
    /\ pc = "scheduler"
    /\ sched.state = "running" \/ sched.last.op = "none"
    /\ \E config \in RunConfigs :
         /\ RoomFor(sched, config)
         /\ sched' = Loaded(sched, config)
    /\ runs' = DuringReload(runs)
    /\ UNCHANGED <<job, handlers, clock, parseCall,
                   pc, calls, t, deadline, first_poll, ssh_up, drive_ready,
                   wakeReads, attempt, last_error, snapshots, path, syncoidCalls,
                   firstOk, retrySleeps, listing, shutdownOutcome, exc, result, w>>

\* routes.py _load_jobs_and_scheduler up to the stop of the scheduler in
\* use: an invalid configuration ends the reload there; otherwise the old
\* scheduler is stopped, whatever stop() raises being swallowed, and the
\* call waits for the executor (stop waits by default).
HotReloadStop ==
    /\ pc = "scheduler"
    /\ \E config \in RunConfigs :
         IF validate_config(config)
         THEN /\ sched' = [Stopped(sched) EXCEPT !.last.config = config]
              /\ runs' = DuringReload(runs)
              /\ pc' = "hot_reload"
         ELSE UNCHANGED <<sched, runs, pc>>
    /\ UNCHANGED <<job, handlers, clock, parseCall,
                   calls, t, deadline, first_poll, ssh_up, drive_ready,
                   wakeReads, attempt, last_error, snapshots, path, syncoidCalls,
                   firstOk, retrySleeps, listing, shutdownOutcome, exc, result, w>>

\* The rest of _load_jobs_and_scheduler, once the runs of the old
\* scheduler's executor have ended: a new HozoScheduler with the result
\* callback, loaded from the configuration and started.
HotReloadStart ==
    /\ pc = "hot_reload"
    /\ \A i \in 1..Len(runs) : runs[i].via = "trigger" => ~InFlight(i)
    /\ sched' = Started(Loaded([NoScheduler EXCEPT !._on_result = "_on_result"],
                               sched.last.config))
    /\ pc' = "scheduler"
    /\ UNCHANGED <<job, runs, handlers, clock, parseCall,
                   calls, t, deadline, first_poll, ssh_up, drive_ready,
                   wakeReads, attempt, last_error, snapshots, path, syncoidCalls,
                   firstOk, retrySleeps, listing, shutdownOutcome, exc, result, w>>

\* A scheduler built with or without a result callback.
InitRun ==
    /\ pc = "scheduler"
    /\ sched \in {[NoScheduler EXCEPT !._on_result = cb] : cb \in {None, "_on_result"}}
    /\ NoRun

NextRun ==
    \/ Reload
    \/ Start
    \/ Stop
    \/ HotReloadStop
    \/ HotReloadStart
    \/ Fire
    \/ CallRunJobNow
    \/ RunEnds

SpecRun == InitRun /\ [][NextRun]_vars

\* Every run_job execution ends (C13): the run a trigger began is not left
\* in flight for ever.
TriggerRunEnds ==
    /\ RunEnds
    /\ \E i \in 1..Len(runs) : runs[i].via = "trigger" /\ Ending(i)

SpecRunLive == SpecRun /\ WF_vars(TriggerRunEnds)

----------------------------------------------------------------------------
(* Log capture of overlapping runs (core/job.py run_job) *)

MaxLines == 2

\* The jobs run side by side.
LogJobs == {[name |-> "X", source_dataset |-> "tank/a"],
            [name |-> "Y", source_dataset |-> "tank/a"]}

\* A line of a log: the run whose code produced it, and whether it went
\* through a logger of the "hozo" package or was a line of syncoid's output
\* appended to the list directly.
Line(by, through) == [by |-> by, through |-> through]

\* run_job is called, by a fired trigger or by run_job_now: it creates
\* log_lines and a _ListHandler that appends to it, and adds the handler to
\* the logger named "hozo", which every run shares.
RunJobBegins ==
    /\ pc = "run_job"
    /\ Len(runs) < MaxRuns
    /\ \E j \in LogJobs, via \in {"trigger", "run_job_now"} :
         /\ \A i \in 1..Len(runs) : runs[i].job # j
         /\ runs' = Append(runs, NewRun(j, via, None, FALSE))
    /\ handlers' = handlers \cup {Len(runs) + 1}
    /\ UNCHANGED <<job, clock, parseCall, sched,
                   pc, calls, t, deadline, first_poll, ssh_up, drive_ready,
                   wakeReads, attempt, last_error, snapshots, path, syncoidCalls,
                   firstOk, retrySleeps, listing, shutdownOutcome, exc, result, w>>

\* Run i logs a record through a module logger ("hozo.core.job" and the
\* like): the record propagates to the "hozo" logger, and every handler
\* attached to it appends the line to its list.
Emitted(rs, hs, i) ==
    [k \in 1..Len(rs) |->
        IF k \in hs
        THEN [rs[k] EXCEPT !.log_lines = Append(@, Line(i, "logger"))]
        ELSE rs[k]]

\* A step of _run_job_inner of run i that logs (logger.info, logger.warning,
\* logger.error).
RunLogs ==
    /\ pc = "run_job"
    /\ \E i \in 1..Len(runs) :
         /\ InFlight(i)
         /\ \A k \in handlers : Len(runs[k].log_lines) < MaxLines
         /\ runs' = Emitted(runs, handlers, i)
    /\ UNCHANGED <<job, handlers, clock, parseCall, sched,
                   pc, calls, t, deadline, first_poll, ssh_up, drive_ready,
                   wakeReads, attempt, last_error, snapshots, path, syncoidCalls,
                   firstOk, retrySleeps, listing, shutdownOutcome, exc, result, w>>

\* The replication step of run i appends a line of syncoid's output to its
\* own list: log_lines.append(f"[syncoid] {line}").
RunAppendsSyncoidLine ==
    /\ pc = "run_job"
    /\ \E i \in 1..Len(runs) :
         /\ InFlight(i)
         /\ Len(runs[i].log_lines) < MaxLines
         /\ runs' = [runs EXCEPT ![i].log_lines = Append(@, Line(i, "syncoid"))]
    /\ UNCHANGED <<job, handlers, clock, parseCall, sched,
                   pc, calls, t, deadline, first_poll, ssh_up, drive_ready,
                   wakeReads, attempt, last_error, snapshots, path, syncoidCalls,
                   firstOk, retrySleeps, listing, shutdownOutcome, exc, result, w>>

\* Mutant of Detached: removeHandler follows the return, outside a finally.
Detached_OnReturn(hs, i, outcome) == IF outcome = "raise" THEN hs ELSE hs \ {i}

\* job.py 101-104: the finally clause removes the handler of run i from the
\* "hozo" logger however _run_job_inner ended.
Detached(hs, i, outcome) == hs \ {i}

\* run_job of run i ends: the handler is removed (finally) and the
\* JobResult, which holds the list, is returned, or the exception of
\* _run_job_inner is raised.
RunJobEnds ==
    /\ pc = "run_job"
    /\ \E i \in 1..Len(runs), outcome \in RunOutcomes :
         /\ InFlight(i)
         /\ runs' = [runs EXCEPT ![i] = Inline(@, outcome)]
         /\ handlers' = Detached(handlers, i, outcome)
    /\ UNCHANGED <<job, clock, parseCall, sched,
                   pc, calls, t, deadline, first_poll, ssh_up, drive_ready,
                   wakeReads, attempt, last_error, snapshots, path, syncoidCalls,
                   firstOk, retrySleeps, listing, shutdownOutcome, exc, result, w>>

InitLog ==
    /\ pc = "run_job"
    /\ sched = NoScheduler
    /\ NoRun

NextLog ==
    \/ RunJobBegins
    \/ RunLogs
    \/ RunAppendsSyncoidLine
    \/ RunJobEnds

SpecLog == InitLog /\ [][NextLog]_vars

----------------------------------------------------------------------------
(* Missed fire times (scheduler/runner.py add_job options; APScheduler's
   _process_jobs and its executor) *)

MisfireGraceTime == 300
MaxPasses == 3

\* IntervalTrigger(minutes=2), given to schedule_job.
EveryTwoMinutes == [kind |-> "interval", day_of_week |-> "", hour |-> 0, minute |-> 2]

\* Seconds between two fire times of a trigger: a day for "daily", a week
\* for "weekly", the interval of an interval trigger.
Period(trigger) ==
    IF trigger.kind = "interval"
    THEN 60 * (60 * trigger.hour + trigger.minute)
    ELSE IF trigger.day_of_week = "*" THEN 24 * 3600 ELSE 7 * 24 * 3600

\* Running schedulers with one registration: job X loaded from a
\* configuration with a daily or a weekly schedule, or given to
\* schedule_job with an interval trigger.
MisfireSchedulers ==
    {Started(Loaded(NoScheduler, [file |-> "mapping", jobs |-> <<raw>>])) :
        raw \in [name : {"X"}, source : {"tank/a"}, schedule : {SDaily, SWeekly}]}
      \cup {Started(AddJob(
              [NoScheduler EXCEPT !._jobs = <<[name |-> "X", source_dataset |-> "tank/a"]>>],
              JobEntry("X", EveryTwoMinutes, [name |-> "X", source_dataset |-> "tank/a"])))}

\* How late the loop wakes for a due job, in seconds: on time, within the
\* grace time, at its end, just past it, and days late.
Lateness == {0, 200, MisfireGraceTime, MisfireGraceTime + 1, 500, 2 * 24 * 3600 + 100}

\* Job._get_run_times(now): the fire times from next_run_time up to now.
RunTimes(next_run_time, period, now) ==
    [k \in 1..((now - next_run_time) \div period + 1) |->
        next_run_time + (k - 1) * period]

\* Mutant of Coalesced: coalesce=False, every run time is kept.
Coalesced_Off(run_times) == run_times

\* coalesce is left at APScheduler's default, True: of the run times that
\* are due only the last is kept.
Coalesced(run_times) ==
    IF run_times = <<>> THEN <<>> ELSE <<run_times[Len(run_times)]>>

\* The executor's run_job with misfire_grace_time=300: a run time more than
\* the grace time in the past is reported missed, for the others the job
\* function is called.
InGrace(run_times, now) ==
    SelectSeq(run_times, LAMBDA rt : ~(now - rt > MisfireGraceTime))

\* One pass of the trigger-evaluation loop, which wakes at or after the
\* next run time of the job: the due run times are coalesced and submitted
\* to the executor unless a run of the job is still in flight (max_instances
\* is left at its default, 1), and the next run time is moved past now.
ProcessJobs ==
    /\ pc = "scheduler"
    /\ sched.state = "running"
    /\ sched.store # <<>>
    /\ clock.passes < MaxPasses
    /\ \E late \in Lateness :
         LET now == clock.next_run_time + late
             e == sched.store[1]
             period == Period(e.trigger)
             all == RunTimes(clock.next_run_time, period, now)
             run_times == Coalesced(all)
             busy == InstanceRunning(e.id)
             called == IF busy THEN <<>> ELSE InGrace(run_times, now)
         IN /\ clock' = [clock EXCEPT
                           !.now = now,
                           !.period = period,
                           !.next_run_time = all[Len(all)] + period,
                           !.passes = @ + 1,
                           !.due = Len(all),
                           !.oldest = all[1],
                           !.run_time = all[Len(all)],
                           !.busy = busy,
                           !.fired = Len(called),
                           !.event = IF busy THEN "max_instances"
                                     ELSE IF called = <<>> THEN "missed"
                                     ELSE "executed"]
            /\ runs' = IF called = <<>> THEN runs
                       ELSE Append(SelectSeq(runs, LAMBDA r : r.phase = "running"),
                                   NewRun(e.job, "trigger", sched._on_result, FALSE))
    /\ UNCHANGED <<job, handlers, parseCall, sched,
                   pc, calls, t, deadline, first_poll, ssh_up, drive_ready,
                   wakeReads, attempt, last_error, snapshots, path, syncoidCalls,
                   firstOk, retrySleeps, listing, shutdownOutcome, exc, result, w>>

\* Time is counted from the first fire time of the job.
InitMisfire ==
    /\ pc = "scheduler"
    /\ sched \in MisfireSchedulers
    /\ NoRun

NextMisfire ==
    \/ ProcessJobs
    \/ RunEnds

SpecMisfire == InitMisfire /\ [][NextMisfire]_vars

----------------------------------------------------------------------------
(* parse_schedule called on its own (scheduler/runner.py) *)

\* The strings given to parse_schedule are put together from six parts:
\* what stands before the keyword, the keyword, the separator (used after
\* the keyword and after the weekday), the weekday if there is one, the
\* time, and what follows. Each part carries, beside its text, what it is.
Leads ==
    {[text |-> <<>>, blank |-> TRUE],
     [text |-> <<" ">>, blank |-> TRUE],
     [text |-> <<"x">>, blank |-> FALSE]}

Keywords ==
    {[text |-> <<"d", "a", "i", "l", "y">>, word |-> "daily"],
     [text |-> <<"D", "A", "I", "L", "Y">>, word |-> "daily"],
     [text |-> <<"w", "e", "e", "k", "l", "y">>, word |-> "weekly"],
     [text |-> <<"W", "e", "e", "k", "l", "y">>, word |-> "weekly"],
     [text |-> <<"e", "v", "e", "r", "y">>, word |-> "other"]}

Separators ==
    {[text |-> <<" ">>, gap |-> TRUE],
     [text |-> <<" ", " ">>, gap |-> TRUE],
     [text |-> <<"\t">>, gap |-> TRUE],
     [text |-> <<>>, gap |-> FALSE]}

Weekdays ==
    {[text |-> <<>>, given |-> FALSE, dow |-> ""],
     [text |-> <<"S", "u", "n", "d", "a", "y">>, given |-> TRUE, dow |-> "sun"],
     [text |-> <<"s", "u", "n", "d", "a", "y">>, given |-> TRUE, dow |-> "sun"],
     [text |-> <<"T", "U", "E", "S", "D", "A", "Y">>, given |-> TRUE, dow |-> "tue"],
     [text |-> <<"n", "o", "o", "n">>, given |-> TRUE, dow |-> ""]}

Times ==
    {[text |-> <<"0", "3", ":", "0", "0">>, form |-> TRUE, hour |-> 3, minute |-> 0],
     [text |-> <<"0", "2", ":", "3", "0">>, form |-> TRUE, hour |-> 2, minute |-> 30],
     [text |-> <<"2", "3", ":", "5", "9">>, form |-> TRUE, hour |-> 23, minute |-> 59],
     [text |-> <<"2", "4", ":", "0", "0">>, form |-> TRUE, hour |-> 24, minute |-> 0],
     [text |-> <<"1", "2", ":", "6", "0">>, form |-> TRUE, hour |-> 12, minute |-> 60],
     [text |-> <<"3", ":", "0", "0">>, form |-> FALSE, hour |-> 3, minute |-> 0],
     [text |-> <<"0", "3", "0", "0">>, form |-> FALSE, hour |-> 3, minute |-> 0]}

Trails ==
    {[text |-> <<>>, blank |-> TRUE],
     [text |-> <<"\n">>, blank |-> TRUE],
     [text |-> <<" ", "x">>, blank |-> FALSE]}

ScheduleParts ==
    [lead : Leads, keyword : Keywords, sep : Separators, weekday : Weekdays,
     time : Times, trail : Trails]

\* The string the parts make.
Text(parts) ==
    parts.lead.text \o parts.keyword.text \o parts.sep.text
        \o (IF parts.weekday.given THEN parts.weekday.text \o parts.sep.text ELSE <<>>)
        \o parts.time.text \o parts.trail.text

\* parse_schedule(schedule_str) is called.
CallParseSchedule ==
    /\ pc = "parse_schedule"
    /\ parseCall = NoParse
    /\ \E parts \in ScheduleParts :
          parseCall' = [NoParse EXCEPT !.input = Text(parts), !.parts = parts]
    /\ UNCHANGED <<job, runs, handlers, clock, sched,
                   pc, calls, t, deadline, first_poll, ssh_up, drive_ready,
                   wakeReads, attempt, last_error, snapshots, path, syncoidCalls,
                   firstOk, retrySleeps, listing, shutdownOutcome, exc, result, w>>

\* The call returns a trigger or raises ValueError.
ParseSchedule ==
    /\ pc = "parse_schedule"
    /\ parseCall # NoParse
    /\ ~parseCall.done
    /\ parseCall' = [parseCall EXCEPT !.done = TRUE,
                                      !.out = parse_schedule(parseCall.input)]
    /\ UNCHANGED <<job, runs, handlers, clock, sched,
                   pc, calls, t, deadline, first_poll, ssh_up, drive_ready,
                   wakeReads, attempt, last_error, snapshots, path, syncoidCalls,
                   firstOk, retrySleeps, listing, shutdownOutcome, exc, result, w>>

InitParse == pc = "parse_schedule" /\ sched = NoScheduler /\ NoRun

NextParse ==
    \/ CallParseSchedule
    \/ ParseSchedule

SpecParse == InitParse /\ [][NextParse]_vars

----------------------------------------------------------------------------
(* The restore run, run_restore_job: wake, await reachability, one
   pull-direction replication attempt, result *)

\* The error of a failed restore attempt.
RestoreError(msg) == "syncoid restore failed: " \o msg

\* Wake, as in run_job.
RestoreWake ==
    /\ pc = "restore_wake"
    /\ calls' = Append(calls, "wake")
    /\ \E o \in WakeOutcomes :
         IF o = "raise"
         THEN Raise("wake") /\ UNCHANGED result
         ELSE pc' = "restore_wait_for_ssh" /\ UNCHANGED <<exc, result>>
    /\ UNCHANGED <<job, runs, handlers, clock, parseCall,
                   w, sched, t, deadline, first_poll, ssh_up, drive_ready, wakeReads,
                   attempt, last_error, snapshots, path, syncoidCalls, firstOk,
                   retrySleeps, listing, shutdownOutcome>>

\* The reachability wait, wait_for_ssh with the job's timeout.
RestoreWaitForSsh ==
    /\ pc = "restore_wait_for_ssh"
    /\ calls' = Append(calls, "wait_for_ssh")
    /\ EnterWaitForSsh(job.timeout, PollInterval)
    /\ path' = "restore"
    /\ UNCHANGED <<job, runs, handlers, clock, parseCall,
                   sched, first_poll, ssh_up, drive_ready, wakeReads, attempt,
                   last_error, snapshots, syncoidCalls, firstOk, retrySleeps,
                   listing, shutdownOutcome, exc, result>>

\* After the wait: a failed result when the host is not reachable, else on
\* to the replication; there is no disk-readiness gate.
RestoreAfterSsh ==
    /\ pc = "ssh_returned"
    /\ path = "restore"
    /\ IF ~ssh_up
       THEN Return(JobResult(FALSE, SshError(job), <<>>, DefaultAttempts))
       ELSE pc' = "restore_syncoid" /\ UNCHANGED result
    /\ w' = NoWait
    /\ UNCHANGED <<job, runs, handlers, clock, parseCall,
                   sched, calls, t, deadline, first_poll, ssh_up, drive_ready,
                   wakeReads, attempt, last_error, snapshots, path, syncoidCalls,
                   firstOk, retrySleeps, listing, shutdownOutcome, exc>>

\* Mutant of RestoreSyncoid: a failed attempt is tried again.
RestoreSyncoid_Retries ==
    /\ pc = "restore_syncoid"
    /\ syncoidCalls <= job.retries
    /\ calls' = Append(calls, "run_restore_syncoid")
    /\ syncoidCalls' = syncoidCalls + 1
    /\ attempt' = 1
    /\ \E o \in SyncoidOutcomes :
         /\ last_error' = LastErrorAfter(o)
         /\ IF o.kind = "returned"
            THEN Return(JobResult(TRUE, None, <<>>, 1))
            ELSE UNCHANGED <<pc, result>>
    /\ UNCHANGED <<job, runs, handlers, clock, parseCall,
                   w, sched, t, deadline, first_poll, ssh_up, drive_ready, wakeReads,
                   snapshots, path, firstOk, retrySleeps, listing, shutdownOutcome,
                   exc>>

\* The single pull-direction attempt, run_restore_syncoid (backup.py
\* 99-178): its return gives a successful result, its failure a failed one.
RestoreSyncoid ==
    /\ pc = "restore_syncoid"
    /\ calls' = Append(calls, "run_restore_syncoid")
    /\ syncoidCalls' = syncoidCalls + 1
    /\ attempt' = 1
    /\ \E o \in SyncoidOutcomes :
         /\ last_error' = LastErrorAfter(o)
         /\ IF o.kind = "returned"
            THEN Return(JobResult(TRUE, None, <<>>, 1))
            ELSE Return(JobResult(FALSE, RestoreError(o.msg), <<>>, 1))
    /\ UNCHANGED <<job, runs, handlers, clock, parseCall,
                   w, sched, t, deadline, first_poll, ssh_up, drive_ready, wakeReads,
                   snapshots, path, firstOk, retrySleeps, listing, shutdownOutcome,
                   exc>>

InitRestore ==
    /\ job \in BackupJob
    /\ pc = "restore_wake"
    /\ calls = <<>>
    /\ t = 0
    /\ deadline = 0
    /\ first_poll = TRUE
    /\ ssh_up = FALSE
    /\ drive_ready = FALSE
    /\ wakeReads = 0
    /\ attempt = Unbound
    /\ last_error = None
    /\ snapshots = <<>>
    /\ path = "none"
    /\ syncoidCalls = 0
    /\ firstOk = 0
    /\ retrySleeps = 0
    /\ listing = "none"
    /\ shutdownOutcome = "none"
    /\ exc = "none"
    /\ result = NoResult
    /\ w = NoWait
    /\ sched = NoScheduler
    /\ runs = <<>>
    /\ handlers = {}
    /\ clock = NoLoop
    /\ parseCall = NoParse

NextRestore ==
    \/ RestoreWake
    \/ RestoreWaitForSsh
    \/ SshPoll
    \/ RestoreAfterSsh
    \/ RestoreSyncoid

SpecRestore == InitRestore /\ [][NextRestore]_vars

----------------------------------------------------------------------------
(* A job built from the configuration and run (config/loader.py
   jobs_from_config, then run_job), beside the jobs built by a direct call
   of the BackupJob constructor *)

\* The keys of a raw job that jobs_from_config does not require.
OptionalKeys == {"backup_device", "disk_spinup_timeout", "schedule"}

\* The raw jobs of the configuration: what the job form and the writer
\* store (routes.py 300-331, writer.py 35-37). `declared` is the set of
\* optional keys the mapping has; the value of a key that is not declared is
\* not read.
RawDiskJobs ==
    [name : {"test"},
     target_host : Hosts,
     shutdown_after : BOOLEAN,
     ssh_timeout : 0..MaxTimeout,
     retries : 0..MaxRetries,
     ssh_port : Ports,
     declared : SUBSET OptionalKeys,
     backup_device : {"/dev/sdb"},
     disk_spinup_timeout : {MaxTimeout},
     schedule : {SDaily}]

\* loader.py 103-122: the BackupJob constructor call of jobs_from_config.
\* It passes neither backup_device nor disk_spinup_timeout nor schedule, so
\* the dataclass defaults apply (job.py 39, 40, 43).
BuiltJob(raw) ==
    [name |-> raw.name,
     target_host |-> raw.target_host,
     shutdown_after |-> raw.shutdown_after,
     timeout |-> raw.ssh_timeout,
     retries |-> raw.retries,
     ssh_port |-> raw.ssh_port,
     backup_device |-> None,
     disk_spinup_timeout |-> DefaultSpinupTimeout,
     schedule |-> <<>>]

\* The configuration is loaded and its job is run, by a fired trigger or by
\* run_job_now: run_job is called with the job jobs_from_config built.
RunBuiltJob ==
    /\ pc = "jobs_from_config"
    /\ job' = BuiltJob(sched.last.config.jobs[1])
    /\ pc' = "wake"
    /\ UNCHANGED <<runs, handlers, clock, parseCall,
                   sched, calls, t, deadline, first_poll, ssh_up, drive_ready,
                   wakeReads, attempt, last_error, snapshots, path, syncoidCalls,
                   firstOk, retrySleeps, listing, shutdownOutcome, exc, result, w>>

\* The configuration has been read and holds one raw job.
InitBuilt ==
    /\ pc = "jobs_from_config"
    /\ \E raw \in RawDiskJobs :
         sched = [NoScheduler EXCEPT
                      !.last.config = [file |-> "mapping", jobs |-> <<raw>>]]
    /\ NoRun

InitConfig == Init \/ InitBuilt

NextConfig == RunBuiltJob \/ Next

SpecConfig == InitConfig /\ [][NextConfig]_vars

----------------------------------------------------------------------------
(* Vocabulary of the properties *)

Count(seq, x) == Cardinality({i \in DOMAIN seq : seq[i] = x})
Contains(seq, x) == \E i \in DOMAIN seq : seq[i] = x

\* The position of a step in the order of section 4.4.
Rank(step) ==
    CASE step = "wake" -> 1
      [] step = "wait_for_ssh" -> 2
      [] step = "wait_for_remote_drive_active" -> 3
      [] step = "run_syncoid" -> 4
      [] step = "list_remote_snapshots" -> 5
      [] step = "shutdown" -> 6

Ended == pc \in {"done", "raised"}
DeclaresDevice == job.backup_device \notin {None, ""}
SshWaitReturned == Contains(calls, "wait_for_ssh") /\ pc # "ssh_loop"
DriveWaitReturned == Contains(calls, "wait_for_remote_drive_active") /\ pc # "drive_loop"

TimeoutTexts == {ToString(n) : n \in 0..(MaxTimeout + 1)}
SshErrorTexts ==
    {"SSH did not become available on backup.local within " \o n \o "s" :
        n \in TimeoutTexts}
DriveErrorTexts ==
    {"Drive /dev/sdb on backup.local did not spin up within " \o n \o "s" :
        n \in TimeoutTexts}

----------------------------------------------------------------------------
\* C1: the external steps of a run occur in the order wake, reachability wait,
\* disk-readiness wait, replication attempts, snapshot listing, shutdown; only
\* the replication step repeats (wake and the two waits are invoked at most
\* once); the disk wait is invoked only for a job that declares a device and,
\* for such a job, before anything that follows the gates; while a wait is in
\* progress it is the last step started.
C1_StepOrder ==
    /\ \A i, k \in DOMAIN calls :
         i < k => /\ Rank(calls[i]) <= Rank(calls[k])
                  /\ Rank(calls[i]) = Rank(calls[k]) => calls[i] = "run_syncoid"
    /\ calls # <<>> => calls[1] = "wake"
    /\ (\E i \in DOMAIN calls : Rank(calls[i]) > 2) => Contains(calls, "wait_for_ssh")
    /\ Contains(calls, "wait_for_remote_drive_active") => DeclaresDevice
    /\ (DeclaresDevice /\ \E i \in DOMAIN calls : Rank(calls[i]) > 3)
           => Contains(calls, "wait_for_remote_drive_active")
    /\ pc = "ssh_loop" => calls[Len(calls)] = "wait_for_ssh"
    /\ pc = "drive_loop" => calls[Len(calls)] = "wait_for_remote_drive_active"

\* A run that went through all six steps, with one replication retry.
C1_Witness ==
    /\ pc = "done"
    /\ calls = <<"wake", "wait_for_ssh", "wait_for_remote_drive_active",
                 "run_syncoid", "run_syncoid", "list_remote_snapshots", "shutdown">>

\* C2 (as claimed): when every run_syncoid call of a run raised, whatever it
\* raised, the run made exactly job.retries calls and returned success=false
\* with attempts=job.retries.
C2_RetryExhaustion ==
    (pc = "done" /\ Contains(calls, "run_syncoid") /\ firstOk = 0)
        => /\ syncoidCalls = job.retries
           /\ result.success = FALSE
           /\ result.attempts = job.retries

\* C3: once the k-th run_syncoid call is the first to return, no further call
\* is made, and the result the run returns has success=true and attempts=k.
C3_SuccessShortCircuits ==
    firstOk >= 1
        => /\ syncoidCalls = firstOk
           /\ firstOk <= job.retries
           /\ pc = "done" => /\ result.success = TRUE
                             /\ result.attempts = firstOk

\* A run that failed once, then succeeded, with retries=3.
C3_Witness ==
    /\ pc = "done"
    /\ job.retries = 3
    /\ firstOk = 2
    /\ syncoidCalls = 2
    /\ result.success

\* C4 (as claimed): a returned result has success=true only if some
\* run_syncoid call returned; if every call raised, it has success=false and
\* the last attempt's message as its error.
C4_SuccessNeedsAReturn ==
    pc = "done"
        => /\ result.success => firstOk >= 1
           /\ (Contains(calls, "run_syncoid") /\ firstOk = 0)
                  => (result.success = FALSE /\ result.error = last_error)

\* C5: when wait_for_ssh has returned false the run has invoked nothing but
\* wake and that one wait, it only returns from there, and what it returns is
\* a failure whose error is the reachability-timeout message, with no
\* snapshots.
C5_SshFailureTerminal ==
    (SshWaitReturned /\ ~ssh_up)
        => /\ calls = <<"wake", "wait_for_ssh">>
           /\ pc \in {"ssh_returned", "done"}
           /\ pc = "done" => /\ result.success = FALSE
                             /\ result.error \in SshErrorTexts
                             /\ result.snapshots_after = <<>>

C5_Witness ==
    /\ pc = "done"
    /\ ~ssh_up
    /\ job.timeout > 0
    /\ job.shutdown_after
    /\ DeclaresDevice
    /\ result.success = FALSE

\* C6 (as claimed): the result returned after a failed reachability wait
\* reports zero replication attempts.
C6_SshFailureZeroAttempts ==
    (pc = "done" /\ SshWaitReturned /\ ~ssh_up) => result.attempts = 0

\* C7: when the disk-readiness wait has returned false, the run invokes
\* neither run_syncoid nor the snapshot listing, it only returns from there,
\* and what it returns is a failure whose error names the device and the host.
C7_DriveFailureTerminal ==
    (DriveWaitReturned /\ ~drive_ready)
        => /\ DeclaresDevice
           /\ ~Contains(calls, "run_syncoid")
           /\ ~Contains(calls, "list_remote_snapshots")
           /\ pc \in {"drive_returned", "done"}
           /\ pc = "done" => /\ result.success = FALSE
                             /\ result.error \in DriveErrorTexts

C7_Witness ==
    /\ pc = "done"
    /\ DriveWaitReturned
    /\ ~drive_ready
    /\ job.disk_spinup_timeout > 0
    /\ wakeReads = 1
    /\ result.success = FALSE

\* C8 (as claimed): a run of a job with shutdown_after set that made a
\* replication attempt has, when it ends, issued the shutdown command exactly
\* once, as its last step.
C8_ShutdownOnceAfterReplication ==
    (Ended /\ job.shutdown_after /\ Contains(calls, "run_syncoid"))
        => /\ Count(calls, "shutdown") = 1
           /\ calls[Len(calls)] = "shutdown"

\* C9: the shutdown step never changes the outcome: whatever the shutdown
\* command did, nothing propagates from it, and the returned result is the one
\* the replication phase decided (failure with the last error, or success; a
\* run in which a replication attempt returned yields success=true).
C9_ShutdownNeverFlips ==
    shutdownOutcome # "none"
        => /\ exc # "shutdown"
           /\ pc = "done"
                => /\ firstOk >= 1 => (result.success = TRUE /\ result.error = None)
                   /\ path = "exhausted"
                        => (result.success = FALSE /\ result.error = last_error)
                   /\ result.success = (path = "success")

\* The shutdown command raised after a successful replication.
C9_Witness ==
    /\ pc = "done"
    /\ shutdownOutcome = "raise"
    /\ firstOk >= 1
    /\ result.success = TRUE

\* C10 (as claimed): a run in which a replication attempt returned ends by
\* returning success=true, with no snapshots unless the listing exited 0,
\* however the listing failed.
C10_ListingNonFatal ==
    (Ended /\ firstOk >= 1)
        => /\ pc = "done"
           /\ result.success = TRUE
           /\ listing # "exit 0" => result.snapshots_after = <<>>

\* C11: a run of a job whose shutdown_after flag is not set never issues the
\* shutdown command, on the success path, on retry exhaustion and on the early
\* failure returns alike (run_job_now runs the same run_job on the held job).
C11_NoShutdownWhenDisabled ==
    ~job.shutdown_after
        => /\ ~Contains(calls, "shutdown")
           /\ shutdownOutcome = "none"

\* A run that exhausted its retries with the flag not set.
C11_Witness ==
    /\ pc = "done"
    /\ ~job.shutdown_after
    /\ path = "exhausted"
    /\ syncoidCalls = 2
    /\ result.success = FALSE

\* C12 (as claimed): run_job never propagates an exception: every run that
\* ends has returned a JobResult with the finish timestamp set.
C12_NeverRaises ==
    /\ pc # "raised"
    /\ exc = "none"
    /\ pc = "done" => result.finished

\* C13 (as claimed): each wait ends no later than its timeout: while a wait is
\* in progress the time elapsed since it was entered never exceeds the timeout.
C13_WaitsEndByTimeout ==
    pc \in {"ssh_loop", "drive_loop"} => t <= deadline

\* C13 (amended): every run reaches a terminal state; a wait whose timeout has
\* elapsed starts no further poll and returns at its next step; the retry loop
\* makes at most job.retries attempts.
C13_Terminates ==
    /\ <>Ended
    /\ [](syncoidCalls <= job.retries)
    /\ [][(pc \in {"ssh_loop", "drive_loop"} /\ t >= deadline)
             => pc' \in {"ssh_returned", "drive_returned"}]_vars

\* A run that went through both waits, spun the drive up, used all its
\* replication attempts and ended.
C13_Witness ==
    /\ pc = "done"
    /\ DeclaresDevice
    /\ drive_ready
    /\ wakeReads = 1
    /\ job.retries = 3
    /\ syncoidCalls = 3
    /\ path = "exhausted"

(* C14: within one wait_for_remote_drive_active call the wake read is issued
   at most once: exactly once when the first poll found the drive not ready
   (standby, sleeping) and spin-up is enabled, however many later polls find
   it not ready, and never when spin-up is disabled or no poll found it not
   ready. *)
C14_WakeReadAtMostOnce ==
    /\ wakeReads <= 1
    /\ (w.spin_up /\ w.notReady >= 1) => wakeReads = 1
    /\ ~w.spin_up => wakeReads = 0
    /\ w.notReady = 0 => wakeReads = 0

C14_Witness ==
    /\ pc = "drive_returned"
    /\ ~drive_ready
    /\ w.spin_up
    /\ w.state = "standby"
    /\ w.notReady >= 3
    /\ wakeReads = 1

(* C15: is_remote_drive_active answers true for the states active, unknown
   and query-unavailable, and answers false only for the states standby and
   sleeping. *)
C15_FalseOnlyForStandbyOrSleeping ==
    w.polls >= 1
        => /\ w.state \in {"active/idle", "active", "idle", "unknown",
                           "hdparm_unavailable"} => w.ready
           /\ ~w.ready => w.state \in {"standby", "sleeping"}

(* C16: wait_for_remote_drive_active returns true at once on the first poll
   that finds the drive ready, with no wake read on that poll; it returns
   false only when the timeout has elapsed and no poll found the drive ready;
   after a poll that found it not ready it sleeps min(poll_interval, time
   remaining), the time remaining counted as 0 once the deadline is behind. *)
C16_DriveWait ==
    /\ [](/\ (pc = "drive_returned" /\ drive_ready)
                => /\ w.ready
                   /\ w.notReady = w.polls - 1
                   /\ w.elapsed = w.polledAt
          /\ (pc = "drive_returned" /\ ~drive_ready)
                => /\ w.elapsed >= w.timeout
                   /\ w.notReady = w.polls
          /\ w.sleeps >= 1
                => w.slept = Min(w.poll_interval, Max(0, w.remaining)))
    /\ [][(w'.polls = w.polls + 1 /\ w'.ready)
             => /\ wakeReads' = wakeReads
                /\ pc' = "drive_returned"
                /\ drive_ready']_vars

C16_Witness ==
    /\ pc = "drive_returned"
    /\ drive_ready
    /\ w.polls = 3
    /\ w.sleeps = 2
    /\ w.state = "hdparm_unavailable"
    /\ wakeReads = 1

(* C17: wait_for_ssh(timeout=T, poll_interval=p) returns within T + p of being
   called, returns false if no connection attempt succeeded, and never
   raises. *)
C17_ReturnsWithinTPlusP ==
    /\ pc # "raised"
    /\ pc = "ssh_returned"
          => /\ w.elapsed <= w.timeout + w.poll_interval
             /\ w.notReady = w.polls => ~ssh_up

(* C18: every failed connection attempt of wait_for_ssh is followed by a sleep
   of min(poll_interval, time remaining), no sleep ends after the deadline,
   and the last connection attempt of a wait that timed out is made exactly
   at the deadline. *)
C18_FinalAttemptAtDeadline ==
    /\ w.sleeps >= 1
          => w.slept = Min(w.poll_interval, Max(0, w.remaining))
    /\ (w.sleeps >= 1 /\ w.remaining >= 0)
          => w.slept <= w.remaining
    /\ (pc = "ssh_returned" /\ ~ssh_up /\ w.polls >= 1)
          => w.pollStart = w.timeout

(* Vocabulary of the scheduler claims *)

\* The active triggers: the entries of the job store of a running scheduler.
Active == IF sched.state = "running" THEN sched.store ELSE <<>>

WithId(entries, id) == SelectSeq(entries, LAMBDA e : e.id = id)

\* The last of the entries with this id.
LastWithId(entries, id) == WithId(entries, id)[Len(WithId(entries, id))]

\* The raw job has a schedule that is present and parseable.
Parseable(raw) ==
    /\ raw.schedule # Absent
    /\ raw.schedule # <<>>
    /\ parse_schedule(raw.schedule).ok

(* C19: after any sequence of load, schedule_job, start and stop calls there
   is at most one active trigger per registration key, and a key registered
   by a load or schedule_job call on a running scheduler has exactly one
   active trigger afterwards: the one that call registered last, whatever
   was registered under the key before. *)
C19_OneTriggerPerKey ==
    /\ \A i, j \in 1..Len(sched.store) :
          sched.store[i].id = sched.store[j].id => i = j
    /\ (sched.state = "running" /\ sched.last.op \in {"load", "schedule_job"})
          => \A k \in 1..Len(sched.last.added) :
                LET id == sched.last.added[k].id
                IN WithId(Active, id) = <<LastWithId(sched.last.added, id)>>

C19_Witness ==
    /\ sched.state = "running"
    /\ sched.last.op = "load"
    /\ Len(sched.last.replaced) = 1
    /\ sched.last.replaced[1].id = "X"
    /\ sched.last.replaced[1].trigger = parse_schedule(SDaily).trigger
    /\ WithId(Active, "X") # <<>>
    /\ WithId(Active, "X")[1].trigger = parse_schedule(SWeekly).trigger

\* No two raw jobs of the list have the same name.
DistinctNames(raws) ==
    \A i, j \in 1..Len(raws) : raws[i].name = raws[j].name => i = j

(* C20: after load_jobs_from_config has read a configuration whose jobs have
   distinct names, the held job list is the list of the configuration's jobs,
   the value returned is the number of jobs whose schedule is present and
   parseable, each of those jobs has a trigger under its name, and a job whose
   schedule is absent or unparseable is held but has no trigger. *)
C20_LoadRegistersParseable ==
    (/\ sched.last.op = "load"
     /\ sched.last.config.file = "mapping"
     /\ DistinctNames(sched.last.config.jobs))
        => LET raws == sched.last.config.jobs
           IN /\ sched._jobs = jobs_from_config(sched.last.config)
              /\ sched.last.count
                    = Cardinality({i \in 1..Len(raws) : Parseable(raws[i])})
              /\ \A i \in 1..Len(raws) :
                    IF Parseable(raws[i])
                    THEN WithId(Triggers(sched), raws[i].name) # <<>>
                    ELSE ~\E k \in 1..Len(Triggers(sched)) :
                            /\ Triggers(sched)[k].id = sched._jobs[i].name
                            /\ Triggers(sched)[k].job = sched._jobs[i]

(* C21: after load_jobs_from_config has read a configuration on a running
   scheduler, every active trigger that came from a configuration is one the
   call has just registered: no trigger is left for a job that is no longer
   in the configuration or has no schedule any more, and none runs an old
   job definition. *)
C21_NoRegistrationLeak ==
    (/\ sched.state = "running"
     /\ sched.last.op = "load"
     /\ sched.last.config.file = "mapping")
        => \A k \in 1..Len(Active) :
              Active[k].trigger.kind = "cron"
                 => \E m \in 1..Len(sched.last.added) :
                       sched.last.added[m] = Active[k]


\* A run that has ended: run_job has returned a result or raised.
RunEnded(i) == runs[i].phase # "running"

\* A run begun by a fired trigger of a scheduler that has a result callback.
Forwarding(i) == runs[i].via = "trigger" /\ Truthy(runs[i].on_result)

(* C22: whatever the outcome of the run it began, a fired trigger whose
   run has ended has forwarded that run's result to the registered callback
   exactly once. *)
C22_ForwardedOnce ==
    \A i \in 1..Len(runs) :
        (RunEnded(i) /\ Forwarding(i)) => runs[i].delivered = 1

(* C23: an exception raised by the result callback does not leave the
   fired trigger's execution, the step in which it is raised leaves the
   scheduler, its registrations and the other runs as they are, and a
   trigger that fires afterwards delivers its result as any other. *)
C23_CallbackFailureCaught ==
    /\ [](\A i \in 1..Len(runs) :
             /\ runs[i].callback = "raise" => ~runs[i].escaped /\ runs[i].phase = "returned"
             /\ (/\ runs[i].after_raise
                 /\ RunEnded(i)
                 /\ Forwarding(i)
                 /\ runs[i].outcome # "raise") => runs[i].delivered = 1)
    /\ [][(~CallbackRaised /\ CallbackRaised')
             => /\ sched' = sched
                /\ pc' = pc
                /\ \A i \in 1..Len(runs) :
                      InFlight(i) =>
                         \/ \E k \in 1..Len(runs') : runs'[k] = runs[i]
                         \/ runs'[Len(runs')].callback = "raise"]_vars

\* After a callback has raised, a trigger of the same scheduler has fired
\* and its run has delivered its result.
C23_Witness ==
    \E i \in 1..Len(runs) :
        /\ runs[i].after_raise
        /\ runs[i].via = "trigger"
        /\ runs[i].callback = "return"
        /\ runs[i].delivered = 1

(* C24: a run begun by run_job_now ends by returning its result to the
   caller, without the result callback, whether or not the scheduler is
   started; when no held job has the name, run_job_now returns None and
   begins no run. *)
C24_RunNowReturns ==
    /\ \A i \in 1..Len(runs) :
          runs[i].via = "run_job_now" =>
             /\ runs[i].delivered = 0
             /\ RunEnded(i) => runs[i].returned /\ ~runs[i].escaped
    /\ sched.last.op = "run_job_now" =>
          /\ sched.last.ret = "None"
          /\ ~\E k \in 1..Len(sched._jobs) : sched._jobs[k].name = sched.last.jid


\* Run i of the state before is run k of the state after, but for the
\* ghost that remembers a reload.
SameRun(i, k) ==
    [runs'[k] EXCEPT !.reloaded = FALSE] = [runs[i] EXCEPT !.reloaded = FALSE]

\* The step leaves every run as it is, in flight or ended.
RunsUntouched ==
    /\ Len(runs') = Len(runs)
    /\ \A i \in 1..Len(runs) : SameRun(i, i)

(* C25: a reload, by load_jobs_from_config on the scheduler in use or by
   the web hot-reload, leaves every run in flight as it is; a run that was
   in flight during a reload ends having run the job definition it began
   with and, when it ends with a result and its scheduler has a callback,
   has delivered that result once. *)
C25_ReloadSparesRuns ==
    /\ [][(\/ sched'.last.op = "load" /\ sched' # sched
           \/ pc' # pc) => RunsUntouched]_vars
    /\ [](\A i \in 1..Len(runs) :
             (runs[i].reloaded /\ RunEnded(i)) =>
                /\ runs[i].ran = runs[i].job
                /\ runs[i].outcome \in RunOutcomes
                /\ (Forwarding(i) /\ runs[i].outcome # "raise") => runs[i].delivered = 1)

\* A run a trigger began has ended with its result delivered after a reload
\* that changed the held definition of its job while it was in flight.
C25_Witness ==
    \E i \in 1..Len(runs) :
        /\ runs[i].reloaded
        /\ runs[i].via = "trigger"
        /\ runs[i].phase = "returned"
        /\ runs[i].delivered = 1
        /\ runs[i].ran = runs[i].job
        /\ sched._jobs # <<>>
        /\ sched._jobs[1].name = runs[i].job.name
        /\ sched._jobs[1] # runs[i].job

\* A run that a trigger began is in flight.
TriggerInFlight == \E i \in 1..Len(runs) : InFlight(i) /\ runs[i].via = "trigger"

(* C26: once stop() has returned the scheduler is stopped and holds no
   trigger, and a trigger begins a run only while the scheduler is running
   and never straight after a stop(); the stop() step leaves the runs in
   flight as they are, and a run a trigger began always comes to its end. *)
C26_StopSparesRuns ==
    /\ []((sched.last.op = "stop" /\ sched.last.exc = "none")
             => sched.state = "stopped" /\ Active = <<>>)
    /\ [][(/\ Len(runs') = Len(runs) + 1
           /\ runs'[Len(runs')].via = "trigger"
           /\ runs'[Len(runs')].phase = "running")
             => sched.state = "running" /\ sched.last.op # "stop"]_vars
    /\ [][(sched'.last.op = "stop" /\ sched' # sched) => RunsUntouched]_vars
    /\ (TriggerInFlight ~> ~TriggerInFlight)

\* A run a trigger began was in flight when the scheduler was stopped and
\* has ended since, with its result delivered, the scheduler still stopped.
C26_Witness ==
    /\ sched.state = "stopped"
    /\ sched.last.op = "stop"
    /\ sched.last.exc = "none"
    /\ \E i \in 1..Len(runs) :
          /\ runs[i].via = "trigger"
          /\ runs[i].ended_while = "stopped"
          /\ runs[i].phase = "returned"
          /\ runs[i].delivered = 1


(* C27: stop() never raises, on a running scheduler, on one that is
   already stopped or on one that was never started, and leaves the
   scheduler stopped. *)
C27_StopIsIdempotent ==
    sched.last.op = "stop" => sched.last.exc = "none" /\ sched.state = "stopped"


(* C28: the log lines of a returned result hold only lines produced by the
   run that returned it, also when another run was in flight at the same
   time. *)
C28_OwnLinesOnly ==
    \A i \in 1..Len(runs) :
        (RunEnded(i) /\ runs[i].returned) =>
            \A n \in 1..Len(runs[i].log_lines) : runs[i].log_lines[n].by = i


\* The loop has made a pass in which a fire time of the job was due.
PassMade == clock.passes > 0

\* At the last pass the latest fire time that was due lay within the grace
\* time.
NoticedInGrace == clock.now - clock.run_time <= MisfireGraceTime

\* At the last pass a fire time of the job lay in the past: it was missed.
Missed == clock.now > clock.run_time

(* C29, as stated: at every pass in which a missed fire time is noticed
   within the grace time the job function is called once, and at no pass is
   it called more than once. *)
C29_FiresOnceInGrace ==
    PassMade =>
        /\ clock.fired <= 1
        /\ (Missed /\ NoticedInGrace) => clock.fired = 1

(* C29, amended: at no pass is the job function called more than once,
   however many fire times were missed; it is called once when the latest
   missed fire time is at most the grace time in the past and no earlier
   run of the job is still in flight; it is not called when that fire time
   is further in the past, and a fire time that falls while a run of the
   job is in flight is skipped. *)
C29_FiresOnceInGraceUnlessBusy ==
    PassMade =>
        /\ clock.fired <= 1
        /\ (NoticedInGrace /\ ~clock.busy) => clock.fired = 1 /\ clock.event = "executed"
        /\ ~NoticedInGrace => clock.fired = 0
        /\ clock.busy => clock.fired = 0 /\ clock.event = "max_instances"
        /\ clock.next_run_time > clock.now

\* Several fire times were missed, the miss was noticed within the grace
\* time of the latest and the job was run once.
C29_Witness ==
    /\ PassMade
    /\ clock.due > 1
    /\ Missed
    /\ NoticedInGrace
    /\ clock.fired = 1
    /\ \E i \in 1..Len(runs) : InFlight(i)


\* The parts are spelt as the grammar spells them: nothing around, the
\* keyword in lower case, single spaces.
SpeltAsTheGrammar(parts) ==
    /\ parts.lead.text = <<>>
    /\ parts.trail.text = <<>>
    /\ parts.keyword.text \in {KwDaily, KwWeekly}
    /\ parts.sep.text = <<" ">>

\* The parts make a daily schedule, or a weekly one, with a time of day.
TimeOfDay(parts) == parts.time.form /\ parts.time.hour <= 23 /\ parts.time.minute <= 59

DailyParts(parts) ==
    /\ parts.keyword.word = "daily"
    /\ ~parts.weekday.given
    /\ TimeOfDay(parts)

WeeklyParts(parts) ==
    /\ parts.keyword.word = "weekly"
    /\ parts.weekday.given
    /\ parts.weekday.dow # ""
    /\ TimeOfDay(parts)

\* The trigger a schedule of these parts stands for.
Meant(parts) ==
    [kind |-> "cron",
     day_of_week |-> IF parts.keyword.word = "daily" THEN "*" ELSE parts.weekday.dow,
     hour |-> parts.time.hour,
     minute |-> parts.time.minute]

(* C30, as stated: parse_schedule returns a trigger exactly for the strings
   "daily HH:MM" and "weekly <Weekday> HH:MM", the weekday in any case, the
   trigger being the one the string stands for, and raises for every other
   string. *)
C30_GrammarExact ==
    parseCall.done =>
        LET parts == parseCall.parts
        IN IF SpeltAsTheGrammar(parts) /\ (DailyParts(parts) \/ WeeklyParts(parts))
           THEN parseCall.out.ok /\ parseCall.out.trigger = Meant(parts)
           ELSE ~parseCall.out.ok

(* C30, amended: parse_schedule ignores white space around the string,
   takes any run of white space between the words and reads the keyword
   and the weekday in any case; for such a "daily HH:MM" it returns the
   trigger of every day at that hour and minute, for such a "weekly
   <Weekday> HH:MM" the trigger of that weekday at that hour and minute, and
   it raises ValueError for every other string, among them those whose
   hour is above 23 or whose minute is above 59. *)
C30_GrammarLenient ==
    parseCall.done =>
        LET parts == parseCall.parts
        IN IF /\ parts.lead.blank
              /\ parts.trail.blank
              /\ parts.sep.gap
              /\ DailyParts(parts) \/ WeeklyParts(parts)
           THEN parseCall.out.ok /\ parseCall.out.trigger = Meant(parts)
           ELSE ~parseCall.out.ok

\* A weekly schedule with its weekday in capitals, more than one space
\* between the words and white space around has been parsed into the
\* trigger of that weekday.
C30_Witness ==
    /\ parseCall.done
    /\ parseCall.out.ok
    /\ parseCall.out.trigger.day_of_week = "tue"
    /\ parseCall.out.trigger.hour = 23
    /\ parseCall.out.trigger.minute = 59
    /\ parseCall.parts.sep.text = <<" ", " ">>
    /\ parseCall.parts.trail.text = <<"\n">>


\* The steps of a restore, in their order.
RestoreSteps == <<"wake", "wait_for_ssh", "run_restore_syncoid">>

(* C31: a restore run issues wake, then the reachability wait, then at most
   one pull-direction replication attempt, and nothing else: no drive wait,
   no wake read, no second attempt. When the host was not reachable the
   result is a failure and no replication was attempted; when the
   replication attempt failed the result is a failure after that one
   attempt; a successful result follows one attempt that returned. *)
C31_RestoreOrder ==
    /\ Len(calls) <= Len(RestoreSteps)
    /\ calls = SubSeq(RestoreSteps, 1, Len(calls))
    /\ syncoidCalls <= 1
    /\ wakeReads = 0
    /\ pc = "done" =>
          /\ result.finished
          /\ ~ssh_up => ~result.success /\ syncoidCalls = 0 /\ Truthy(result.error)
          /\ (ssh_up /\ last_error # None) => ~result.success /\ syncoidCalls = 1
          /\ result.success => syncoidCalls = 1 /\ last_error = None /\ ssh_up

\* A restore has ended in failure after its one replication attempt failed.
C31_Witness ==
    /\ pc = "done"
    /\ calls = RestoreSteps
    /\ last_error # None
    /\ ~result.success
    /\ syncoidCalls = 1


\* The retry loop is over: the run is past step 3.
LoopOver == syncoidCalls > 0 /\ pc \notin {"syncoid"}

(* C32: before each further attempt of the retry loop the retry delay has
   been slept once for every attempt made so far, and once the loop is over
   a run that made k attempts has slept the delay k-1 times: not after its
   last attempt, failed or successful. *)
C32_SleepsBetweenAttempts ==
    /\ (pc = "syncoid" /\ NextAttempt <= job.retries) => retrySleeps = syncoidCalls
    /\ LoopOver => retrySleeps = syncoidCalls - 1

\* A run has succeeded at its third attempt after two sleeps.
C32_Witness ==
    /\ pc = "done"
    /\ result.success
    /\ syncoidCalls = 3
    /\ retrySleeps = 2


\* The steps of run_job that log in to the remote host.
RemoteSteps ==
    {"wait_for_ssh", "wait_for_remote_drive_active", "run_syncoid",
     "list_remote_snapshots", "shutdown"}

(* C33: every remote step a run has issued (reachability probe, disk
   probe, push replication, snapshot listing, shutdown) addressed the login
   port of the job. *)
C33_ConfiguredPort ==
    \A i \in 1..Len(calls) :
        calls[i] \in RemoteSteps => PortAddressed(calls[i], job) = job.ssh_port


(* C34: whatever load_jobs_from_config and schedule_job calls were made,
   the held list has at most one job of each name. *)
C34_OneHeldJobPerName ==
    \A i, k \in 1..Len(sched._jobs) :
        sched._jobs[i].name = sched._jobs[k].name => i = k


(* C35: every result run_job returns has an absent error when it reports
   success, a non-empty error and no snapshot when it reports failure, and a
   finish timestamp that is set and not earlier than its start timestamp. *)
C35_ResultWellFormed ==
    pc = "done" =>
        /\ result.success => result.error = None
        /\ ~result.success => Truthy(result.error) /\ result.snapshots_after = <<>>
        /\ result.finished
        /\ result.finished_at >= result.started_at

\* A run has returned a failure after all its attempts failed.
C35_Witness ==
    /\ pc = "done"
    /\ ~result.success
    /\ path = "exhausted"
    /\ Truthy(result.error)
    /\ syncoidCalls = job.retries


\* The poll being made is one whose state query raises.
QueryRaises ==
    /\ pc = "drive_loop"
    /\ w'.polls = w.polls + 1
    /\ w'.query = "raise"

(* C36: when the remote command that queries the drive state raises, the
   state is taken as unknown, wait_for_remote_drive_active returns true on
   that poll without issuing a wake read, and the job goes on to the
   replication step; the prober itself does not raise. *)
C36_QueryFailureIsReady ==
    [][/\ QueryRaises =>
            /\ w'.state = "unknown"
            /\ w'.ready
            /\ wakeReads' = wakeReads
            /\ pc' = "drive_returned"
            /\ drive_ready'
       /\ (pc = "drive_returned" /\ w.query = "raise") => pc' = "syncoid"
       /\ pc = "drive_loop" => pc' \in {"drive_loop", "drive_returned"} /\ exc' = exc
      ]_vars

\* wait_for_remote_drive_active has returned true on a poll whose state query
\* raised, an earlier poll having found the drive not ready and issued the
\* wake read.
C36_Witness ==
    /\ pc = "drive_returned"
    /\ w.query = "raise"
    /\ w.polls = 2
    /\ wakeReads = 1
    /\ drive_ready


(* C37: run_job leaves the handlers of the shared logger as it found them:
   the handler of a run is attached exactly while the run is in flight,
   whether the run ends by return or by exception, and once a run has ended
   no line is appended to its log list. *)
C37_HandlerDetached ==
    /\ [](handlers = {i \in 1..Len(runs) : InFlight(i)})
    /\ [][\A i \in 1..Len(runs) :
            RunEnded(i) => /\ Len(runs') >= i
                           /\ runs'[i].log_lines = runs[i].log_lines]_vars

\* A run has ended by exception while another run, still in flight, has
\* logged since: the line reached the list of the run in flight only.
C37_Witness ==
    \E i, k \in 1..Len(runs) :
        /\ runs[i].phase = "raised"
        /\ InFlight(k)
        /\ handlers = {k}
        /\ Len(runs[k].log_lines) > Len(runs[i].log_lines)


\* The job being run was built from a configuration.
FromConfiguration == sched.last.config.jobs # <<>> /\ job # NoJob

\* The raw job the job being run was built from.
RawOf == sched.last.config.jobs[1]

(* C38: a job built from the configuration carries the configured disk
   device, disk spin-up timeout and schedule string, so a job whose
   configuration declares a disk device has gone through the disk-readiness
   wait by the time it reaches the replication step. *)
C38_ConfiguredDeviceGated ==
    FromConfiguration =>
        /\ "backup_device" \in RawOf.declared
               => job.backup_device = RawOf.backup_device
        /\ "disk_spinup_timeout" \in RawOf.declared
               => job.disk_spinup_timeout = RawOf.disk_spinup_timeout
        /\ "schedule" \in RawOf.declared => job.schedule = RawOf.schedule
        /\ ("backup_device" \in RawOf.declared /\ pc = "syncoid")
               => "wait_for_remote_drive_active" \in {calls[i] : i \in 1..Len(calls)}

====
